---------------------------- MODULE Spec2Model ----------------------------
(***************************************************************************)
(* A model of the CourtFirst data-pipeline scripts (tools/*.py).           *)
(*                                                                         *)
(* Every script is a sequential batch job; each is modelled as its own     *)
(* state machine over its own variables (prefix eu_ for enrich_urls.py,    *)
(* vc_ for its verify_candidate, ...), and has its own specification       *)
(* (SpecEU, SpecVerify, ...).  The variables of the other scripts stay at  *)
(* their idle value under a script's specification.                        *)
(*                                                                         *)
(* Strings are sequences of tokens: a title <<"Smith", "v.", "Jones">>, a  *)
(* citation <<"[2014]", "JRC", "045">>, a URL <<"https", "www", "bailii",  *)
(* "org", "/", "b">>.  The empty string is <<>>; the token " " stands for  *)
(* white space that str.strip() removes.  Python's None is the value None. *)
(***************************************************************************)
EXTENDS Integers, Sequences, FiniteSets, TLC

\* ------------------------------------------------------------------------
\* Variables

\* tools/enrich_urls.py, main and resolve_url_for_row
VARIABLES eu_args, eu_input, eu_rows, eu_ok, eu_skipped, eu_i, eu_pc,
          eu_queries, eu_qi, eu_cands, eu_seen, eu_verdict, eu_out,
          eu_returned, eu_fetched, eu_verified, eu_net

\* tools/enrich_urls.py, verify_candidate as a function of its arguments
VARIABLES vc_title, vc_cite, vc_page, vc_result, vc_pc

\* tools/rebuild_cases_from_ltj_lines.py, main
VARIABLES rb_args, rb_lines, rb_subset, rb_k, rb_rows, rb_missed, rb_pc, rb_out

\* tools/clean_cases_safe.py, main
VARIABLES cc_input, cc_k, cc_total, cc_changed, cc_out_rows, cc_pc, cc_out

\* tools/extract_cases_from_lines.py, main
VARIABLES ex_python, ex_args, ex_data, ex_k, ex_rows, ex_skipped, ex_pc, ex_out

\* tools/enrich_first10.py, main
VARIABLES f10_args, f10_rows, f10_window, f10_i, f10_results, f10_urls_index,
          f10_skipped, f10_ok, f10_ko, f10_consec_fail, f10_aborted, f10_pc, f10_out

\* tools/enrich_first10.py, choose_primary
VARIABLES cp_citation, cp_urls, cp_result, cp_pc

\* tools/enrich_one_list.py, main
VARIABLES ol_input, ol_rows, ol_k, ol_out_rows, ol_searched, ol_fetched, ol_pc, ol_out

\* tools/fetch_cases.py, main
VARIABLES fc_util, fc_input, fc_k, fc_ok, fc_failed, fc_files, fc_pc, fc_report
VARIABLES pf_url, pf_cache, pf_i, pf_requests, pf_sleeps, pf_log, pf_result, pf_pc
VARIABLES fn_args, fn_rows, fn_fieldnames, fn_i, fn_processed, fn_pc, fn_out

\* tools/enrich_sources.py, main and pick_url_for_row
VARIABLES es_args, es_input, es_df, es_i, es_pc, es_m, es_tries, es_reason,
          es_pick, es_firsts, es_out

euVars == <<eu_args, eu_input, eu_rows, eu_ok, eu_skipped, eu_i, eu_pc,
            eu_queries, eu_qi, eu_cands, eu_seen, eu_verdict, eu_out,
            eu_returned, eu_fetched, eu_verified, eu_net>>
vcVars == <<vc_title, vc_cite, vc_page, vc_result, vc_pc>>

esVars == <<es_args, es_input, es_df, es_i, es_pc, es_m, es_tries, es_reason,
            es_pick, es_firsts, es_out>>

rbVars == <<rb_args, rb_lines, rb_subset, rb_k, rb_rows, rb_missed, rb_pc, rb_out>>

ccVars == <<cc_input, cc_k, cc_total, cc_changed, cc_out_rows, cc_pc, cc_out>>

exVars == <<ex_python, ex_args, ex_data, ex_k, ex_rows, ex_skipped, ex_pc, ex_out>>

f10Vars ==
    <<f10_args, f10_rows, f10_window, f10_i, f10_results, f10_urls_index,
      f10_skipped, f10_ok, f10_ko, f10_consec_fail, f10_aborted, f10_pc, f10_out>>

cpVars == <<cp_citation, cp_urls, cp_result, cp_pc>>

olVars == <<ol_input, ol_rows, ol_k, ol_out_rows, ol_searched, ol_fetched, ol_pc, ol_out>>

fcVars == <<fc_util, fc_input, fc_k, fc_ok, fc_failed, fc_files, fc_pc, fc_report>>

fnVars == <<fn_args, fn_rows, fn_fieldnames, fn_i, fn_processed, fn_pc, fn_out>>

pfVars == <<pf_url, pf_cache, pf_i, pf_requests, pf_sleeps, pf_log, pf_result, pf_pc>>

vars == <<euVars, vcVars, esVars, rbVars, ccVars, exVars, f10Vars, cpVars, olVars, fcVars, fnVars, pfVars>>

\* ------------------------------------------------------------------------
\* Python values and string helpers

None == <<"<None>">>

Truthy(x) == x # None /\ x # <<>>

\* a or b
Or(a, b) == IF Truthy(a) THEN a ELSE b

\* dict.get(k) / dict.get(k, d)
Get(r, k, d) == IF k \in DOMAIN r THEN r[k] ELSE d

Min(a, b) == IF a < b THEN a ELSE b

Max(a, b) == IF a > b THEN a ELSE b

Range(s) == {s[k] : k \in 1..Len(s)}

\* s[:n]
Take(s, n) == SubSeq(s, 1, Min(n, Len(s)))

\* s.startswith(p)
StartsWith(s, p) == Len(p) <= Len(s) /\ SubSeq(s, 1, Len(p)) = p

\* sub in s, for strings: sub occurs as a contiguous run of s
Contains(s, sub) ==
    \E k \in 0..(Len(s) - Len(sub)) : SubSeq(s, k + 1, k + Len(sub)) = sub

\* White space: the space, and "\t" for every other white-space character.
IsSpace(t) == t \in {" ", "\t"}

\* str.lstrip(chars), str.rstrip(chars), str.strip(chars)
RECURSIVE LStripSet(_, _)
LStripSet(s, chars) ==
    IF s # <<>> /\ Head(s) \in chars THEN LStripSet(Tail(s), chars) ELSE s

RECURSIVE RStripSet(_, _)
RStripSet(s, chars) ==
    IF s # <<>> /\ s[Len(s)] \in chars
    THEN RStripSet(SubSeq(s, 1, Len(s) - 1), chars) ELSE s

StripSet(s, chars) == RStripSet(LStripSet(s, chars), chars)

\* str.lstrip(), str.rstrip(), str.strip()
LStrip(s) == LStripSet(s, {" ", "\t"})

RStrip(s) == RStripSet(s, {" ", "\t"})

Strip(s) == RStrip(LStrip(s))

\* ------------------------------------------------------------------------
\* tools/enrich_urls.py

\* TITLE_SIM_THRESHOLD = 0.72, in hundredths
TITLE_SIM_THRESHOLD == 72

MAX_PER_SITE_RESULTS == 5

ALLOWED_SITES == << <<"www", "jerseylaw", "je">>, <<"www", "bailii", "org">> >>

JERSEY_MARKERS == { <<"JLR">>, <<"JRC">>, <<"JCA">>, <<"Jersey">> }

UK_MARKERS == { <<"EWCA">>, <<"EWHC">>, <<"UKHL">>, <<"UKSC">>, <<"WLR">>,
                <<"All", "ER">>, <<"AC">>, <<"QB">>, <<"Ch">>, <<"Fam">> }

\* The host of a URL: what stands between the scheme and the first "/".
RECURSIVE UpToSlash(_)
UpToSlash(s) ==
    IF s = <<>> \/ Head(s) = "/" THEN <<>> ELSE <<Head(s)>> \o UpToSlash(Tail(s))

Host(u) == IF u = <<>> THEN <<>> ELSE UpToSlash(Tail(u))

\* norm() of one token at position k of an n-token string: lower case,
\* punctuation and quotes dropped, " vs " and " v. " between two words
\* rewritten to " v ".
NormTok(t, k, n) ==
    CASE t = " "        -> <<>>
      [] t = "Smith"    -> <<"smith">>
      [] t = "SMITH"    -> <<"smith">>
      [] t = "Jones"    -> <<"jones">>
      [] t = "Jones,"   -> <<"jones">>
      [] t = "v"        -> <<"v">>
      [] t = "v."       -> <<"v">>
      [] t = "vs"       -> IF 1 < k /\ k < n THEN <<"v">> ELSE <<"vs">>
      [] t = "Re"       -> <<"re">>
      [] t = "(Jersey)" -> <<"jersey">>
      [] t = "Ltd."     -> <<"ltd">>
      [] t = "[2014]"   -> <<"2014">>
      [] t = "[1990]"   -> <<"1990">>
      [] t = "JRC"      -> <<"jrc">>
      [] t = "JLR"      -> <<"jlr">>
      [] t = "Ch"       -> <<"ch">>
      [] t = "."        -> <<>>
      [] OTHER          -> <<t>>

RECURSIVE NormFrom(_, _)
NormFrom(s, k) ==
    IF k > Len(s) THEN <<>> ELSE NormTok(s[k], k, Len(s)) \o NormFrom(s, k + 1)

norm(s) == NormFrom(Or(s, <<>>), 1)

\* title_similarity as the fraction <<inter, denom>>; 0.0 is <<0, 1>>.
title_similarity(a, b) ==
    LET ta == Range(norm(a))
        tb == Range(norm(b))
    IN  IF ta = {} \/ tb = {} THEN <<0, 1>>
        ELSE <<Cardinality(ta \cap tb), Cardinality(ta \cup tb)>>

FracLess(x, y) == x[1] * y[2] < y[1] * x[2]

FracMax(x, y) == IF FracLess(x, y) THEN y ELSE x

RowFields(row) ==
    Get(row, "Citation", <<>>) \o Get(row, "Jurisdiction", <<>>)
      \o Get(row, "citation", <<>>) \o Get(row, "jurisdiction", <<>>)

looks_jersey(row) == \E m \in JERSEY_MARKERS : Contains(RowFields(row), m)

looks_uk(row) == \E m \in UK_MARKERS : Contains(RowFields(row), m)

IsBracketYear(t) == t \in {"[2014]", "[1990]"}

IsNeutralCode(t) == t \in {"EWHC", "EWCA", "UKSC", "UKHL", "JRC", "JCA", "JLR"}

RECURSIVE FirstWhere(_, _)
FirstWhere(s, S) ==
    IF s = <<>> THEN None
    ELSE IF Head(s) \in S THEN <<Head(s)>> ELSE FirstWhere(Tail(s), S)

\* citation_token: the first bracketed year, else the first neutral code.
citation_token(cite) ==
    IF ~Truthy(cite) THEN None
    ELSE LET y == FirstWhere(cite, {t \in Range(cite) : IsBracketYear(t)})
             c == FirstWhere(cite, {t \in Range(cite) : IsNeutralCode(t)})
         IN  IF y # None THEN y ELSE c

choose_domains(row) ==
    IF looks_jersey(row) THEN <<ALLOWED_SITES[1], ALLOWED_SITES[2]>>
    ELSE IF looks_uk(row) THEN <<ALLOWED_SITES[2], ALLOWED_SITES[1]>>
    ELSE <<ALLOWED_SITES[1], ALLOWED_SITES[2]>>

\* A page as BeautifulSoup sees it, <<title, h1, h2, strong, b, body>>: the
\* text of <title>, of the first <h1>, <h2>, <strong> and <b> (<<>> when the
\* element is missing or empty) and the rest of the text.
Page(title, h1, h2, strong, b, body) == <<title, h1, h2, strong, b, body>>

\* soup.get_text(" ", strip=True)
PageText(p) == p[1] \o p[2] \o p[3] \o p[4] \o p[5] \o p[6]

TitleCandidates(p) ==
    (IF p[1] # <<>> THEN <<p[1]>> ELSE <<>>)
      \o (IF p[2] # <<>> THEN <<p[2]>> ELSE <<>>)
      \o (IF p[3] # <<>> THEN <<p[3]>>
          ELSE IF p[4] # <<>> THEN <<p[4]>>
          ELSE IF p[5] # <<>> THEN <<p[5]>> ELSE <<>>)

RECURSIVE BestSim(_, _, _)
BestSim(title, cands, best) ==
    IF cands = <<>> THEN best
    ELSE BestSim(title, Tail(cands), FracMax(best, title_similarity(title, Head(cands))))

BelowThreshold(best) == best[1] * 100 < TITLE_SIM_THRESHOLD * best[2]

TokenCheck(tok, text) == Contains(text, tok)

verify_candidate(title, cite, page) ==
    LET best == BestSim(title, TitleCandidates(page), <<0, 1>>)
        tok  == citation_token(cite)
    IN  IF BelowThreshold(best) THEN FALSE
        ELSE IF tok # None /\ ~TokenCheck(tok, PageText(page)) THEN FALSE
        ELSE TRUE

\* --- the inputs of a run ---------------------------------------------

\* Most rows a run's input file holds.
MaxRowsEU == 2

U_JL == <<"https", "www", "jerseylaw", "je", "/", "a">>
U_BA == <<"http", "www", "bailii", "org", "/", "b">>
U_EV == <<"https", "www", "bailii", "org", "evil", "example", "/", "c">>
U_CM == <<"https", "www", "casemine", "com", "/", "d">>
U_OLD == <<"https", "example", "org", "/", "x">>

T_SJ == <<"Smith", "v", "Jones">>
C_JRC == <<"[2014]", "JRC", "045">>
C_CH == <<"1", "Ch", "123">>

\* The rows of the input CSV (header Title,Citation,url): a row to look up
\* without and with a citation, a row that has its URL, and rows whose
\* title is blank.
RowSetEU ==
    { [Title |-> T_SJ, Citation |-> <<>>, url |-> <<>>],
      [Title |-> T_SJ, Citation |-> C_JRC, url |-> <<>>],
      [Title |-> T_SJ, Citation |-> C_JRC, url |-> U_OLD],
      [Title |-> <<" ">>, Citation |-> <<>>, url |-> <<>>],
      [Title |-> <<>>, Citation |-> C_JRC, url |-> U_OLD] }

\* The rows of an input CSV that has no url column yet.
NoUrlRowSetEU ==
    { [Title |-> T_SJ, Citation |-> <<>>],
      [Title |-> <<" ">>, Citation |-> <<>>] }

RowSeqsEU ==
    UNION {[1..n -> RowSetEU] \cup [1..n -> NoUrlRowSetEU] : n \in 0..MaxRowsEU}

ArgSetEU == [start : {-1, 0, 1}, end : {-1, 1, 2}]

\* What DuckDuckGo may answer to one query: an exception, or a list of links.
DDGAnswers ==
    { [err |-> "HTTPError", hits |-> <<>>],
      [err |-> "Timeout", hits |-> <<>>],
      [err |-> "", hits |-> <<>>],
      [err |-> "", hits |-> <<U_CM, U_JL>>],
      [err |-> "", hits |-> <<U_EV, U_BA>>] }

\* What fetch() may return for a candidate: None, or the page's HTML.
FetchAnswers ==
    { None,
      Page(<<"Smith", "v.", "Jones">>, <<>>, <<>>, <<>>, <<>>,
           <<"heard", "[2014]", "JRC", "045">>),
      Page(<<>>, <<"Jones", "v", "Smith", "(Jersey)">>, <<>>, <<>>, <<>>, <<>>),
      Page(<<"Re", "Jones">>, <<>>, <<>>, <<>>, <<>>, C_JRC) }

\* --- resolve_url_for_row and main ------------------------------------

RowTitle(row) == Strip(Or(Get(row, "Title", None), Or(Get(row, "title", None), <<>>)))

RowCite(row) == Strip(Or(Get(row, "Citation", None), Or(Get(row, "citation", None), <<>>)))

\* The queries of resolve_url_for_row, each <<title, citation part, site>>.
RECURSIVE SiteQueries(_, _, _)
SiteQueries(title, cite, domains) ==
    IF domains = <<>> THEN <<>>
    ELSE <<<<title, <<>>, Head(domains)>>>>
           \o (IF Truthy(cite) THEN <<<<title, cite, Head(domains)>>>> ELSE <<>>)
           \o SiteQueries(title, cite, Tail(domains))

BuildQueries(row) ==
    LET title == RowTitle(row)
        cite  == RowCite(row)
    IN  SiteQueries(title, cite, choose_domains(row))
          \o <<<<title, cite, <<>>>>>>
          \o (IF Truthy(cite) THEN <<<<title, <<Head(cite)>>, <<>>>>>> ELSE <<>>)

\* u.startswith("https://" + dom) or u.startswith("http://" + dom), any dom
AllowedHit(u) ==
    \E d \in 1..Len(ALLOWED_SITES) :
        \/ StartsWith(u, <<"https">> \o ALLOWED_SITES[d])
        \/ StartsWith(u, <<"http">> \o ALLOWED_SITES[d])

KeepAllowed(hits) == SelectSeq(hits, AllowedHit)

Verdict(url, reason) == [url |-> url, reason |-> reason]

NoVerdict == Verdict(None, <<>>)

\* d[k] = v on a dict
Put(d, k, v) == (k :> v) @@ d

EmptyDict == [k \in {} |-> <<>>]

SliceStart(args) == Max(0, args.start)

SliceEnd_IgnoresEnd(args, n) == n

SliceEnd(args, n) == IF args.end < 0 THEN n ELSE Min(n, args.end)

read_csv(file) == file

EnsureUrl(row) == IF "url" \in DOMAIN row THEN row ELSE ("url" :> <<>>) @@ row

\* write_csv: <<the header's fields, the rows as written>>
write_csv(rows) ==
    << IF rows = <<>> THEN {"url"} ELSE DOMAIN rows[1] \cup {"url"},
       [k \in 1..Len(rows) |-> EnsureUrl(rows[k])] >>

RecordSkipped_LosesErrors(skipped, i, title, reason) ==
    IF Head(reason) = "ddg-error" THEN skipped
    ELSE Put(skipped, i, [title |-> title, reason |-> reason])

\* skipped[i] = {"title": title, "reason": reason}
RecordSkipped(skipped, i, title, reason) ==
    Put(skipped, i, [title |-> title, reason |-> reason])

\* The last two of the requests.get and time.sleep calls of the run: the
\* kind of the last one and the row it was made for, and the same for the
\* one before it.
NoNet == [last |-> "none", row |-> 0, prev |-> "none", prev_row |-> 0]

\* ddg_query, line 108, and fetch, line 118: requests.get for row i
NetRequest(net, i) == [last |-> "request", row |-> i, prev |-> net.last, prev_row |-> net.row]

\* The end of row i without its sleep
PolitenessSleep_Skipped(net, i) == net

\* main, lines 296-298: time.sleep(pause) at the end of row i
PolitenessSleep(net, i) == [last |-> "sleep", row |-> i, prev |-> net.last, prev_row |-> net.row]

NotEU == <<vcVars, esVars, rbVars, ccVars, exVars, f10Vars, cpVars, olVars, fcVars, fnVars, pfVars>>

EUInit ==
    /\ eu_args \in ArgSetEU
    /\ eu_input \in RowSeqsEU
    /\ eu_rows = <<>>
    /\ eu_ok = EmptyDict
    /\ eu_skipped = EmptyDict
    /\ eu_i = 0
    /\ eu_pc = "start"
    /\ eu_queries = <<>>
    /\ eu_qi = 0
    /\ eu_cands = <<>>
    /\ eu_seen = {}
    /\ eu_verdict = NoVerdict
    /\ eu_out = None
    /\ eu_returned = {}
    /\ eu_fetched = {}
    /\ eu_verified = {}
    /\ eu_net = NoNet

\* main, lines 254-269: read the rows, clamp the slice, add the url column
EU_Begin ==
    /\ eu_pc = "start"
    /\ LET rows == read_csv(eu_input)
           n == Len(rows)
           s == SliceStart(eu_args)
           e == SliceEnd(eu_args, n)
       IN  IF s >= e
           THEN /\ eu_rows' = rows
                /\ eu_pc' = "done"
                /\ UNCHANGED eu_i
           ELSE /\ eu_rows' = [k \in 1..n |-> EnsureUrl(rows[k])]
                /\ eu_pc' = "loop"
                /\ eu_i' = s
    /\ UNCHANGED <<eu_args, eu_input, eu_ok, eu_skipped, eu_queries, eu_qi,
                   eu_cands, eu_seen, eu_verdict, eu_out, eu_returned,
                   eu_fetched, eu_verified, eu_net>>
    /\ UNCHANGED NotEU

\* main, lines 271-285: one row of the slice up to the call of
\* resolve_url_for_row, and that function's lines 186-205
EU_Row ==
    /\ eu_pc = "loop"
    /\ eu_i < SliceEnd(eu_args, Len(eu_rows))
    /\ LET r == eu_rows[eu_i + 1]
           title == RowTitle(r)
       IN  IF ~Truthy(title)
           THEN /\ eu_skipped' = RecordSkipped(eu_skipped, eu_i, title, <<"no-title">>)
                /\ eu_i' = eu_i + 1
                /\ UNCHANGED <<eu_pc, eu_queries, eu_qi, eu_seen>>
           ELSE IF Truthy(Get(r, "url", None))
           THEN /\ eu_i' = eu_i + 1
                /\ UNCHANGED <<eu_pc, eu_skipped, eu_queries, eu_qi, eu_seen>>
           ELSE /\ eu_queries' = BuildQueries(r)
                /\ eu_qi' = 1
                /\ eu_seen' = {}
                /\ eu_pc' = "query"
                /\ UNCHANGED <<eu_i, eu_skipped>>
    /\ UNCHANGED <<eu_args, eu_input, eu_rows, eu_ok, eu_out, eu_cands,
                   eu_verdict, eu_returned, eu_fetched, eu_verified, eu_net>>
    /\ UNCHANGED NotEU

\* resolve_url_for_row, lines 206-214 and 223: the next query
EU_Query ==
    /\ eu_pc = "query"
    /\ IF eu_qi > Len(eu_queries)
       THEN /\ eu_verdict' = Verdict(None, <<"no-verified-match">>)
            /\ eu_pc' = "rowend"
            /\ UNCHANGED <<eu_cands, eu_returned, eu_net>>
       ELSE \E a \in DDGAnswers :
            /\ eu_net' = NetRequest(eu_net, eu_i)
            /\ IF a.err # ""
               THEN /\ eu_verdict' = Verdict(None, <<"ddg-error", a.err>>)
                    /\ eu_pc' = "rowend"
                    /\ UNCHANGED <<eu_cands, eu_returned>>
               ELSE /\ eu_cands' = Take(KeepAllowed(a.hits), MAX_PER_SITE_RESULTS)
                    /\ eu_returned' = eu_returned \cup Range(a.hits)
                    /\ eu_pc' = "cand"
                    /\ UNCHANGED eu_verdict
    /\ UNCHANGED <<eu_args, eu_input, eu_rows, eu_ok, eu_skipped, eu_i,
                   eu_queries, eu_qi, eu_seen, eu_out, eu_fetched, eu_verified>>
    /\ UNCHANGED NotEU

\* resolve_url_for_row, lines 214-222: the next hit of the query
EU_Cand ==
    /\ eu_pc = "cand"
    /\ IF eu_cands = <<>>
       THEN /\ eu_qi' = eu_qi + 1
            /\ eu_pc' = "query"
            /\ UNCHANGED <<eu_cands, eu_seen, eu_verdict, eu_fetched, eu_verified, eu_net>>
       ELSE LET u == Head(eu_cands)
            IN  /\ eu_cands' = Tail(eu_cands)
                /\ eu_qi' = eu_qi
                /\ IF u \in eu_seen
                   THEN UNCHANGED <<eu_pc, eu_seen, eu_verdict, eu_fetched, eu_verified, eu_net>>
                   ELSE /\ eu_seen' = eu_seen \cup {u}
                        /\ eu_net' = NetRequest(eu_net, eu_i)
                        /\ \E html_text \in FetchAnswers :
                             IF ~Truthy(html_text)
                             THEN UNCHANGED <<eu_pc, eu_verdict, eu_fetched, eu_verified>>
                             ELSE /\ eu_fetched' = eu_fetched \cup {u}
                                  /\ LET r == eu_rows[eu_i + 1]
                                     IN  IF verify_candidate(RowTitle(r), RowCite(r), html_text)
                                         THEN /\ eu_verified' = eu_verified \cup {u}
                                              /\ eu_verdict' = Verdict(u, <<"ok">>)
                                              /\ eu_pc' = "rowend"
                                         ELSE UNCHANGED <<eu_pc, eu_verdict, eu_verified>>
    /\ UNCHANGED <<eu_args, eu_input, eu_rows, eu_ok, eu_skipped, eu_i,
                   eu_queries, eu_out, eu_returned>>
    /\ UNCHANGED NotEU

\* main, lines 286-298: the verdict goes to the row, to ok or to skipped,
\* and the politeness sleep
EU_RowEnd ==
    /\ eu_pc = "rowend"
    /\ LET title == RowTitle(eu_rows[eu_i + 1])
           v == eu_verdict
       IN  IF Truthy(v.url)
           THEN /\ eu_rows' = [eu_rows EXCEPT ![eu_i + 1].url = v.url]
                /\ eu_ok' = Put(eu_ok, eu_i, [title |-> title, url |-> v.url])
                /\ UNCHANGED eu_skipped
           ELSE /\ eu_skipped' = RecordSkipped(eu_skipped, eu_i, title, v.reason)
                /\ UNCHANGED <<eu_rows, eu_ok>>
    /\ eu_i' = eu_i + 1
    /\ eu_pc' = "loop"
    \* the locals of resolve_url_for_row are gone
    /\ eu_queries' = <<>>
    /\ eu_qi' = 0
    /\ eu_cands' = <<>>
    /\ eu_seen' = {}
    /\ eu_verdict' = NoVerdict
    /\ eu_returned' = {}
    /\ eu_fetched' = {}
    /\ eu_verified' = {}
    /\ eu_net' = PolitenessSleep(eu_net, eu_i)
    /\ UNCHANGED <<eu_args, eu_input, eu_out>>
    /\ UNCHANGED NotEU

\* main, line 300: the slice is done, the CSV is written
EU_Write ==
    /\ eu_pc = "loop"
    /\ eu_i >= SliceEnd(eu_args, Len(eu_rows))
    /\ eu_out' = write_csv(eu_rows)
    /\ eu_pc' = "done"
    /\ UNCHANGED <<eu_args, eu_input, eu_rows, eu_ok, eu_skipped, eu_i,
                   eu_queries, eu_qi, eu_cands, eu_seen, eu_verdict,
                   eu_returned, eu_fetched, eu_verified, eu_net>>
    /\ UNCHANGED NotEU

VCIdle ==
    /\ vc_title = <<>>
    /\ vc_cite = <<>>
    /\ vc_page = None
    /\ vc_result = FALSE
    /\ vc_pc = "idle"

EUIdle ==
    /\ eu_args = None
    /\ eu_input = <<>>
    /\ eu_rows = <<>>
    /\ eu_ok = EmptyDict
    /\ eu_skipped = EmptyDict
    /\ eu_i = 0
    /\ eu_pc = "idle"
    /\ eu_queries = <<>>
    /\ eu_qi = 0
    /\ eu_cands = <<>>
    /\ eu_seen = {}
    /\ eu_verdict = NoVerdict
    /\ eu_out = None
    /\ eu_returned = {}
    /\ eu_fetched = {}
    /\ eu_verified = {}
    /\ eu_net = NoNet

ESIdle ==
    /\ es_args = None
    /\ es_input = <<>>
    /\ es_df = <<>>
    /\ es_i = 0
    /\ es_pc = "idle"
    /\ es_m = 0
    /\ es_tries = 0
    /\ es_reason = <<>>
    /\ es_pick = None
    /\ es_firsts = {}
    /\ es_out = None

RBIdle ==
    /\ rb_args = None
    /\ rb_lines = <<>>
    /\ rb_subset = <<>>
    /\ rb_k = 0
    /\ rb_rows = <<>>
    /\ rb_missed = <<>>
    /\ rb_pc = "idle"
    /\ rb_out = None

F10Idle ==
    /\ f10_args = None
    /\ f10_rows = <<>>
    /\ f10_window = <<>>
    /\ f10_i = 0
    /\ f10_results = <<>>
    /\ f10_urls_index = << >>
    /\ f10_skipped = << >>
    /\ f10_ok = 0
    /\ f10_ko = 0
    /\ f10_consec_fail = 0
    /\ f10_aborted = FALSE
    /\ f10_pc = "idle"
    /\ f10_out = None

CPIdle ==
    /\ cp_citation = <<>>
    /\ cp_urls = << >>
    /\ cp_result = <<>>
    /\ cp_pc = "idle"

FCIdle ==
    /\ fc_util = ""
    /\ fc_input = <<>>
    /\ fc_k = 0
    /\ fc_ok = <<>>
    /\ fc_failed = <<>>
    /\ fc_files = {}
    /\ fc_pc = "idle"
    /\ fc_report = None

FNIdle ==
    /\ fn_args = <<>>
    /\ fn_rows = <<>>
    /\ fn_fieldnames = {}
    /\ fn_i = 0
    /\ fn_processed = 0
    /\ fn_pc = "idle"
    /\ fn_out = None

PFIdle ==
    /\ pf_url = <<>>
    /\ pf_cache = None
    /\ pf_i = 0
    /\ pf_requests = 0
    /\ pf_sleeps = <<>>
    /\ pf_log = <<>>
    /\ pf_result = None
    /\ pf_pc = "idle"

OLIdle ==
    /\ ol_input = <<>>
    /\ ol_rows = <<>>
    /\ ol_k = 0
    /\ ol_out_rows = <<>>
    /\ ol_searched = {}
    /\ ol_fetched = {}
    /\ ol_pc = "idle"
    /\ ol_out = None

EXIdle ==
    /\ ex_python = ""
    /\ ex_args = None
    /\ ex_data = <<>>
    /\ ex_k = 0
    /\ ex_rows = <<>>
    /\ ex_skipped = << >>
    /\ ex_pc = "idle"
    /\ ex_out = None

CCIdle ==
    /\ cc_input = <<>>
    /\ cc_k = 0
    /\ cc_total = 0
    /\ cc_changed = 0
    /\ cc_out_rows = <<>>
    /\ cc_pc = "idle"
    /\ cc_out = None

InitEU == EUInit /\ VCIdle /\ ESIdle /\ RBIdle /\ CCIdle /\ EXIdle /\ F10Idle /\ CPIdle /\ OLIdle /\ FCIdle /\ FNIdle /\ PFIdle

NextEU == EU_Begin \/ EU_Row \/ EU_Query \/ EU_Cand \/ EU_RowEnd \/ EU_Write

SpecEU == InitEU /\ [][NextEU]_vars

\* --- properties of enrich_urls.main --------------------------------------

InputRow(k) == EnsureUrl(eu_input[k])

UrlOf(row) == Get(row, "url", <<>>)

OnAllowedSite(u) == Host(u) \in Range(ALLOWED_SITES)

\* C1: a run sets a row's url only to a URL that a search returned, that is
\* on an allowed site (host www.jerseylaw.je or www.bailii.org), that was
\* fetched successfully and that verify_candidate accepted; otherwise the
\* row's url keeps its input value.
C1_UrlOnlyVerifiedOnAllowedSite ==
    [][ /\ eu_pc = "start" =>
             \A k \in 1..Len(eu_rows') : UrlOf(eu_rows'[k]) = InputRow(k).url
        /\ eu_pc # "start" =>
             /\ Len(eu_rows') = Len(eu_rows)
             /\ \A k \in 1..Len(eu_rows) :
                  UrlOf(eu_rows'[k]) # UrlOf(eu_rows[k]) =>
                    LET u == UrlOf(eu_rows'[k])
                    IN  /\ k = eu_i + 1
                        /\ u \in eu_returned
                        /\ OnAllowedSite(u)
                        /\ u \in eu_fetched
                        /\ u \in eu_verified ]_vars

SkipReasonsEU ==
    {<<"no-title">>, <<"no-verified-match">>}
      \cup {<<"ddg-error", a.err>> : a \in {x \in DDGAnswers : x.err # ""}}

\* The rows main has been through: the slice up to eu_i.
DoneRowsEU == SliceStart(eu_args)..(eu_i - 1)

\* C3: of the rows main has processed, each one that had no url and got
\* none is in skipped under its index with one of the reasons, each one
\* that got a URL is in ok, and no index is in both.
C3_SkippedOrOk ==
    eu_pc # "start" =>
      /\ \A i \in DoneRowsEU :
           /\ (~Truthy(InputRow(i + 1).url) /\ ~Truthy(UrlOf(eu_rows[i + 1]))) =>
                  /\ i \in DOMAIN eu_skipped
                  /\ eu_skipped[i].reason \in SkipReasonsEU
           /\ UrlOf(eu_rows[i + 1]) # InputRow(i + 1).url =>
                  /\ i \in DOMAIN eu_ok
                  /\ eu_ok[i].url = UrlOf(eu_rows[i + 1])
      /\ DOMAIN eu_ok \cap DOMAIN eu_skipped = {}

\* The whole slice is processed and written; a search failed for one row
\* and another row got its URL.
C3_Witness ==
    /\ eu_pc = "done"
    /\ eu_out # None
    /\ \E i \in DOMAIN eu_skipped : Head(eu_skipped[i].reason) = "ddg-error"
    /\ DOMAIN eu_ok # {}

\* --end as main reads it: negative is "to the last row".
EndRowEU == IF eu_args.end < 0 THEN Len(eu_input) ELSE eu_args.end

TitlesVC == { T_SJ, <<"Smith", "vs", "Jones", "Ltd.">> }

CitesVC == { <<>>, C_JRC, C_CH, <<"JRC", "045">> }

PagesVC ==
    { Page(t, h1, h2, st, <<>>, body) :
        t \in { <<>>, <<"Smith", "v.", "Jones">>, <<"Re", "Jones">> },
        h1 \in { <<>>, <<"Jones", "v", "Smith", "(Jersey)">> },
        h2 \in { <<>>, <<"SMITH", "vs", "Jones", "Ltd.">> },
        st \in { <<>>, T_SJ },
        body \in { <<>>, <<"heard", "[2014]", "JRC", "045">>, <<"JRC", "12">> } }

NotVC == <<euVars, esVars, rbVars, ccVars, exVars, f10Vars, cpVars, olVars, fcVars, fnVars, pfVars>>

VCInit ==
    /\ vc_title \in TitlesVC
    /\ vc_cite \in CitesVC
    /\ vc_page \in PagesVC
    /\ vc_result = FALSE
    /\ vc_pc = "call"

\* verify_candidate(title, cite, html_text)
VC_Call ==
    /\ vc_pc = "call"
    /\ vc_result' = verify_candidate(vc_title, vc_cite, vc_page)
    /\ vc_pc' = "done"
    /\ UNCHANGED <<vc_title, vc_cite, vc_page>>
    /\ UNCHANGED NotVC

InitVerify == VCInit /\ EUIdle /\ ESIdle /\ RBIdle /\ CCIdle /\ EXIdle /\ F10Idle /\ CPIdle /\ OLIdle /\ FCIdle /\ FNIdle /\ PFIdle

NextVerify == VC_Call

SpecVerify == InitVerify /\ [][NextVerify]_vars

\* C2: verify_candidate accepts a page only if the best title similarity
\* is at least TITLE_SIM_THRESHOLD and, when the citation is not empty, the
\* citation or a token taken from it appears in the page text.
C2_AcceptedPageHasCitation ==
    (vc_pc = "done" /\ vc_result) =>
      /\ ~BelowThreshold(BestSim(vc_title, TitleCandidates(vc_page), <<0, 1>>))
      /\ Truthy(vc_cite) =>
           \/ Contains(PageText(vc_page), vc_cite)
           \/ \E k \in 1..Len(vc_cite) : Contains(PageText(vc_page), <<vc_cite[k]>>)

\* ------------------------------------------------------------------------
\* tools/enrich_sources.py
\*
\* URLs are tokenised finer here, <<"https", "://", "www", ".", "bailii",
\* ".", "org", "/", "b">>, because is_on_domain compares the end of the
\* host's characters.

\* Most rows of the input CSV, and the largest --max-retries.
MaxRowsES == 2

MaxRetriesES == 2

SAFE_DOMAINS == << <<"jerseylaw", ".", "je">>, <<"bailii", ".", "org">> >>

ES_JL == <<"https", "://", "www", ".", "jerseylaw", ".", "je", "/", "a">>
ES_BA == <<"https", "://", "WWW", ".", "BAILII", ".", "org", "/", "b">>
ES_EV == <<"https", "://", "not", "bailii", ".", "org", "/", "c">>
ES_CM == <<"https", "://", "www", ".", "casemine", ".", "com", "/", "d">>

\* s.endswith(p)
EndsWith(s, p) == Len(p) <= Len(s) /\ SubSeq(s, Len(s) - Len(p) + 1, Len(s)) = p

\* str.lower() of one token
LowerTok(t) ==
    CASE t = "WWW" -> "www"
      [] t = "BAILII" -> "bailii"
      [] OTHER -> t

Lower(s) == [k \in 1..Len(s) |-> LowerTok(s[k])]

RECURSIVE AfterScheme(_)
AfterScheme(s) ==
    IF s = <<>> THEN <<>>
    ELSE IF Head(s) = "://" THEN Tail(s) ELSE AfterScheme(Tail(s))

\* urlparse(url).netloc
Netloc(url) == UpToSlash(AfterScheme(url))

is_on_domain(url, domain) == EndsWith(Lower(Netloc(url)), domain)

\* build_queries: <<method label, query>>; the query is <<site, title, year>>
\* or, for the open search, <<title, year, citation>>.
build_queries(title, year, citation) ==
    << << <<"ddg", ":", "jerseylaw">>, <<SAFE_DOMAINS[1], title, Or(year, <<>>)>> >>,
       << <<"ddg", ":", "bailii">>, <<SAFE_DOMAINS[2], title, Or(year, <<>>)>> >>,
       << <<"ddg", ":", "open">>, <<title, Or(year, <<>>), Or(citation, <<>>)>> >> >>

\* row_value: None for a missing or NaN cell or one that strips to nothing
row_value(row, key) ==
    IF key \in DOMAIN row /\ row[key] # None
    THEN (IF Strip(row[key]) # <<>> THEN Strip(row[key]) ELSE None)
    ELSE None

\* What ddg_query may do: raise, or return the first result's link (None
\* when the page has no result).
DDGFirst ==
    { [raise |-> "429", url |-> None],
      [raise |-> "HTTPError", url |-> None],
      [raise |-> "ConnectionError", url |-> None],
      [raise |-> "", url |-> None],
      [raise |-> "", url |-> ES_JL],
      [raise |-> "", url |-> ES_BA],
      [raise |-> "", url |-> ES_EV],
      [raise |-> "", url |-> ES_CM] }

\* One pass of the body of pick_url_for_row's while loop, lines 135-157, for
\* ddg_query's answer a: <<"return", url, domain>> or <<"reason", reason>>.
TryOnce(method, a) ==
    IF a.raise = "429" THEN <<"reason", <<"rate limited">>>>
    ELSE IF a.raise = "HTTPError" THEN <<"reason", <<"http error", a.raise>>>>
    ELSE IF a.raise # "" THEN <<"reason", <<"error", a.raise>>>>
    ELSE IF ~Truthy(a.url) THEN <<"reason", <<"no DDG result">>>>
    ELSE IF Contains(method, <<"jerseylaw">>) /\ is_on_domain(a.url, SAFE_DOMAINS[1])
         THEN <<"return", a.url, SAFE_DOMAINS[1]>>
    ELSE IF Contains(method, <<"bailii">>) /\ is_on_domain(a.url, SAFE_DOMAINS[2])
         THEN <<"return", a.url, SAFE_DOMAINS[2]>>
    ELSE IF is_on_domain(a.url, SAFE_DOMAINS[1]) \/ is_on_domain(a.url, SAFE_DOMAINS[2])
         THEN <<"return", a.url,
                IF is_on_domain(a.url, SAFE_DOMAINS[1]) THEN SAFE_DOMAINS[1]
                ELSE SAFE_DOMAINS[2]>>
    ELSE <<"reason", <<"first result not on allowed domain">> \o a.url>>

RowSetES ==
    { [Title |-> T_SJ, Year |-> <<"2014">>, Citation |-> C_JRC, url |-> <<>>],
      [Title |-> T_SJ, Year |-> None, Citation |-> None, url |-> U_OLD],
      [Title |-> <<" ">>, Year |-> None, Citation |-> None, url |-> U_OLD],
      [Title |-> None, Year |-> <<"2014">>, Citation |-> None, url |-> <<>>] }

RowSeqsES == UNION {[1..n -> RowSetES] : n \in 0..MaxRowsES}

\* --start, --end (<<>> when omitted, else <<end>>) and --max-retries
ArgSetES ==
    [start : {0, 1}, end : {<<>>, <<1>>}, max_retries : 0..MaxRetriesES]

StartES(args) == Max(0, args.start)

EndES(args, n) == Min(IF args.end # <<>> THEN args.end[1] ELSE n, n)

\* main, lines 201-204: the output columns exist
EnsureCols(row) ==
    [c \in DOMAIN row \cup {"url", "url_source", "url_status"} |->
        IF c \in DOMAIN row THEN row[c] ELSE <<>>]

NotES == <<euVars, vcVars, rbVars, ccVars, exVars, f10Vars, cpVars, olVars, fcVars, fnVars, pfVars>>

ESInit ==
    /\ es_args \in ArgSetES
    /\ es_input \in RowSeqsES
    /\ es_df = <<>>
    /\ es_i = 0
    /\ es_pc = "start"
    /\ es_m = 0
    /\ es_tries = 0
    /\ es_reason = <<>>
    /\ es_pick = None
    /\ es_firsts = {}
    /\ es_out = None

\* main, lines 187-204: read the CSV, clamp the slice, add the columns
ES_Begin ==
    /\ es_pc = "start"
    /\ LET n == Len(es_input)
       IN  IF StartES(es_args) >= EndES(es_args, n)
           THEN /\ es_df' = es_input
                /\ es_out' = <<es_input>>
                /\ es_pc' = "done"
                /\ UNCHANGED es_i
           ELSE /\ es_df' = [k \in 1..n |-> EnsureCols(es_input[k])]
                /\ es_i' = StartES(es_args)
                /\ es_pc' = "loop"
                /\ UNCHANGED es_out
    /\ UNCHANGED <<es_args, es_input, es_m, es_tries, es_reason, es_pick, es_firsts>>
    /\ UNCHANGED NotES

\* main, lines 221-238: a row without title is skipped, the others go to
\* pick_url_for_row
ES_Row ==
    /\ es_pc = "loop"
    /\ es_i < EndES(es_args, Len(es_df))
    /\ LET title == row_value(es_df[es_i + 1], "Title")
       IN  IF ~Truthy(title)
           THEN /\ es_df' = [es_df EXCEPT ![es_i + 1].url = <<>>,
                                          ![es_i + 1].url_source = <<>>,
                                          ![es_i + 1].url_status = <<"skip: no title">>]
                /\ es_i' = es_i + 1
                /\ UNCHANGED <<es_pc, es_m, es_tries>>
           ELSE /\ es_m' = 1
                /\ es_tries' = 0
                /\ es_pc' = "try"
                /\ UNCHANGED <<es_df, es_i>>
    /\ UNCHANGED <<es_args, es_input, es_reason, es_pick, es_firsts, es_out>>
    /\ UNCHANGED NotES

\* pick_url_for_row, lines 131-168: one pass of the while loop of the
\* current method, or the end of the methods
ES_Try ==
    /\ es_pc = "try"
    /\ LET r == es_df[es_i + 1]
           queries == build_queries(row_value(r, "Title"), row_value(r, "Year"),
                                    row_value(r, "Citation"))
       IN  IF es_m > Len(queries)
           THEN /\ es_pick' = <<None, None, <<"none">>, <<"no acceptable domain match">>>>
                /\ es_pc' = "rowend"
                /\ UNCHANGED <<es_m, es_tries, es_reason, es_firsts>>
           ELSE \E a \in DDGFirst :
                  LET method == queries[es_m][1]
                      res == TryOnce(method, a)
                  IN  /\ es_firsts' = IF a.raise = "" /\ Truthy(a.url)
                                      THEN es_firsts \cup {<<method, a.url>>}
                                      ELSE es_firsts
                      /\ IF res[1] = "return"
                         THEN /\ es_pick' = <<res[2], res[3], method, <<"match via DDG">>>>
                              /\ es_pc' = "rowend"
                              /\ UNCHANGED <<es_m, es_tries, es_reason>>
                         ELSE /\ es_reason' = res[2]
                              /\ IF es_tries + 1 >= es_args.max_retries
                                 THEN es_m' = es_m + 1 /\ es_tries' = 0
                                 ELSE es_m' = es_m /\ es_tries' = es_tries + 1
                              /\ UNCHANGED <<es_pick, es_pc>>
    /\ UNCHANGED <<es_args, es_input, es_df, es_i, es_out>>
    /\ UNCHANGED NotES

\* main, lines 249-260 and 278: the pick goes to the row
ES_RowEnd ==
    /\ es_pc = "rowend"
    /\ IF Truthy(es_pick[1])
       THEN es_df' = [es_df EXCEPT ![es_i + 1].url = es_pick[1],
                                   ![es_i + 1].url_source = Or(es_pick[2], <<>>),
                                   ![es_i + 1].url_status = es_pick[3]]
       ELSE es_df' = [es_df EXCEPT ![es_i + 1].url = <<>>,
                                   ![es_i + 1].url_source = <<>>,
                                   ![es_i + 1].url_status = es_pick[4]]
    /\ es_i' = es_i + 1
    /\ es_pc' = "loop"
    \* the locals of pick_url_for_row are gone
    /\ es_m' = 0
    /\ es_tries' = 0
    /\ es_reason' = <<>>
    /\ es_pick' = None
    /\ es_firsts' = {}
    /\ UNCHANGED <<es_args, es_input, es_out>>
    /\ UNCHANGED NotES

\* main, line 288: the CSV is written
ES_Write ==
    /\ es_pc = "loop"
    /\ es_i >= EndES(es_args, Len(es_df))
    /\ es_out' = <<es_df>>
    /\ es_pc' = "done"
    /\ UNCHANGED <<es_args, es_input, es_df, es_i, es_m, es_tries, es_reason,
                   es_pick, es_firsts>>
    /\ UNCHANGED NotES

InitES == ESInit /\ EUIdle /\ VCIdle /\ RBIdle /\ CCIdle /\ EXIdle /\ F10Idle /\ CPIdle /\ OLIdle /\ FCIdle /\ FNIdle /\ PFIdle

NextES == ES_Begin \/ ES_Row \/ ES_Try \/ ES_RowEnd \/ ES_Write

SpecES == InitES /\ [][NextES]_vars

\* --- properties of enrich_sources -----------------------------------------

\* The host is the domain or a subdomain of it.
OnDomain(url, domain) ==
    LET h == Lower(Netloc(url))
    IN  h = domain \/ EndsWith(h, <<".">> \o domain)

\* The domains a strategy's first result may be on.
IntendedDomains(method) ==
    IF method = <<"ddg", ":", "jerseylaw">> THEN {SAFE_DOMAINS[1]}
    ELSE IF method = <<"ddg", ":", "bailii">> THEN {SAFE_DOMAINS[2]}
    ELSE Range(SAFE_DOMAINS)

IntendedHit(f) == \E d \in IntendedDomains(f[1]) : OnDomain(f[2], d)

\* C5: when a row has been looked up, its url is non-empty only if the
\* first result of some strategy was on the domain that strategy intended,
\* and is that result; if no strategy found such a link the url is empty
\* and url_status carries the reason.
C5_UrlOnlyFromIntendedDomain ==
    [][ es_pc = "rowend" =>
          LET row == es_df'[es_i + 1]
          IN  /\ row.url # <<>> =>
                   \E f \in es_firsts : f[2] = row.url /\ IntendedHit(f)
              /\ (~\E f \in es_firsts : IntendedHit(f)) =>
                   row.url = <<>> /\ row.url_status # <<>> ]_vars

\* ------------------------------------------------------------------------
\* tools/rebuild_cases_from_ltj_lines.py
\*
\* A line's text is a sequence of tokens with its white space explicit:
\* <<"A", " ", "[2015]", " ", "JRC", " ", "186">>.

\* Most lines of LTJ.lines.json.
MaxLinesRB == 2

\* YEAR = \[[12][0-9]{3}\]
IsYearRB(t) == t \in {"[2015]", "[1990]"}

YearDigits(t) == IF t = "[2015]" THEN "2015" ELSE IF t = "[1990]" THEN "1990" ELSE ""

\* [A-Z]{2,5} as a whole word
IsCapsRB(t) == t \in {"JRC", "JLR", "EWHC", "AC"}

\* one character of [0-9A-Za-z/ ] starts the token
IsCitCharRB(t) ==
    t \in {" ", "A", "B", "v", "Smith", "Jones", "Jersey", "JRC", "JLR", "EWHC", "AC",
           "186", "12", "2015"}

\* str.upper() of one token
UpperTok(t) ==
    CASE t = "Jersey" -> "JERSEY"
      [] t = "Smith" -> "SMITH"
      [] t = "Jones" -> "JONES"
      [] t = "v" -> "V"
      [] t = "Royal" -> "ROYAL"
      [] t = "Court" -> "COURT"
      [] t = "jrc" -> "JRC"
      [] OTHER -> t

guess_jurisdiction(text) ==
    LET t == {UpperTok(text[k]) : k \in 1..Len(text)}
    IN  IF t \cap {"JRC", "JLR", "JERSEY"} # {} THEN <<"Jersey">>
        ELSE IF t \cap {"GUERNSEY", "GRC"} # {} THEN <<"Guernsey">>
        ELSE IF t \cap {"EWHC", "EWCA", "UK"} # {} THEN <<"UK">>
        ELSE <<>>

\* The index of the first token of s from k on that is not white space
\* (Len(s) + 1 when there is none).
RECURSIVE SkipSpace(_, _)
SkipSpace(s, k) ==
    IF k <= Len(s) /\ IsSpace(s[k]) THEN SkipSpace(s, k + 1) ELSE k

\* The least index of s in S, 0 when there is none.
FirstIndexIn(s, S) ==
    IF \E k \in 1..Len(s) : s[k] \in S
    THEN CHOOSE k \in 1..Len(s) : s[k] \in S /\ \A j \in 1..(k - 1) : s[j] \notin S
    ELSE 0

\* TITLE_PAT.match(tt): the title group, or None.  The year must follow at
\* least one character and one white space; the group goes on, after white
\* space, up to the first comma.
TitlePatMatch(tt) ==
    LET P == {p \in 3..Len(tt) : IsYearRB(tt[p]) /\ IsSpace(tt[p - 1])}
    IN  IF P = {} THEN None
        ELSE LET p == CHOOSE x \in P : \A y \in P : x <= y
                 rest == SubSeq(tt, p + 1, Len(tt))
                 c == FirstIndexIn(rest, {","})
                 q == IF rest # <<>> /\ IsSpace(rest[1])
                      THEN (IF c = 0 THEN Len(tt) ELSE p + c - 1)
                      ELSE p
             IN  SubSeq(tt, 1, q)

\* re.search(r"\[year\]\s+([A-Z]{2,5})\s+[0-9A-Za-z/ ]+", title)
CitationFound(title, year) ==
    \E a \in 1..Len(title) :
        /\ IsYearRB(title[a]) /\ YearDigits(title[a]) = year
        /\ LET b == SkipSpace(title, a + 1)
           IN  /\ b > a + 1
               /\ b <= Len(title)
               /\ IsCapsRB(title[b])
               /\ LET c == SkipSpace(title, b + 1)
                  IN  /\ c > b + 1
                      /\ \/ c <= Len(title) /\ IsCitCharRB(title[c])
                         \/ \E j \in (b + 2)..(c - 1) : title[j] = " "

\* One row of the output CSV, in the order of CASE_ROW_COLS; case_id, a
\* digest of the other columns, is left out.
CaseRow(title, year, citation, jurisdiction, line) ==
    <<title, year, citation, jurisdiction, line>>

\* parse_line: None, the row, or <<"raise", "IndexError">> when
\* citation.split(' ', 1)[1] does not exist.
parse_line(line_no, text) ==
    LET tt == StripSet(Strip(text), {"-"})
    IN  IF tt = <<>> THEN None
        ELSE LET m == TitlePatMatch(tt)
             IN  IF m = None THEN None
                 ELSE LET title0 == Strip(m)
                          y == FirstIndexIn(title0, {t \in Range(title0) : IsYearRB(t)})
                          year == IF y = 0 THEN "" ELSE YearDigits(title0[y])
                          found == year # "" /\ CitationFound(title0, year)
                          idx == FirstIndexIn(title0, {t \in Range(title0) : YearDigits(t) = year})
                          citation == IF found THEN Strip(SubSeq(title0, idx, Len(title0))) ELSE <<>>
                          title == IF found THEN RStrip(SubSeq(title0, 1, idx - 1)) ELSE title0
                          sp == FirstIndexIn(citation, {" "})
                      IN  IF year # "" /\ citation # <<>> /\ sp = 0
                          THEN <<"raise", "IndexError">>
                          ELSE CaseRow(IF year # "" /\ citation # <<>>
                                       THEN title \o <<" ", title0[y], " ">>
                                              \o SubSeq(citation, sp + 1, Len(citation))
                                       ELSE IF year # "" THEN title \o <<" ", title0[y]>>
                                       ELSE title,
                                       year, citation, guess_jurisdiction(tt), line_no)

TextsRB ==
    { <<"A", " ", "[2015]", " ", "JRC", " ", "186", ",", " ", "12">>,
      <<"A", " ", "v", " ", "B", " ", "[2015]", "\t", "JRC", "\t", "186">>,
      <<"-", " ", "Smith", " ", "[1990]">>,
      <<"[2015]", " ", "JRC", " ", "186">>,
      <<"Smith", " ", "2015", " ", "JLR", " ", "12">>,
      <<" ", "-", " ">> }

LineSetRB == [line_no : {1, 2, 3}, text : TextsRB]

LineSeqsRB == UNION {[1..n -> LineSetRB] : n \in 0..MaxLinesRB}

ArgSetRB == [start : {1, 2}, end : {1, 3}]

LineNo(r) == Get(r, "line_no", -1)

\* The three files main writes: the CSV, the missing CSV and the report.
RebuildFiles(out_csv, missing_csv, report) == <<out_csv, missing_csv, report>>

NotRB == <<euVars, vcVars, esVars, ccVars, exVars, f10Vars, cpVars, olVars, fcVars, fnVars, pfVars>>

RBInit ==
    /\ rb_args \in ArgSetRB
    /\ rb_lines \in LineSeqsRB
    /\ rb_subset = <<>>
    /\ rb_k = 0
    /\ rb_rows = <<>>
    /\ rb_missed = <<>>
    /\ rb_pc = "start"
    /\ rb_out = None

InRangeRB(r) == rb_args.start <= LineNo(r) /\ LineNo(r) <= rb_args.end

\* main, lines 95-102: load the lines, keep those of the range
RB_Begin ==
    /\ rb_pc = "start"
    /\ rb_subset' = SelectSeq(rb_lines, InRangeRB)
    /\ rb_k' = 1
    /\ rb_pc' = "loop"
    /\ UNCHANGED <<rb_args, rb_lines, rb_rows, rb_missed, rb_out>>
    /\ UNCHANGED NotRB

\* main, lines 103-110: one line of the subset; an exception of parse_line
\* ends the run
RB_Line ==
    /\ rb_pc = "loop"
    /\ rb_k <= Len(rb_subset)
    /\ LET r == rb_subset[rb_k]
           ln == LineNo(r)
           txt == Get(r, "text", <<>>)
           parsed == parse_line(ln, txt)
       IN  IF parsed = <<"raise", "IndexError">>
           THEN /\ rb_pc' = "crashed"
                /\ UNCHANGED <<rb_k, rb_rows, rb_missed>>
           ELSE IF parsed # None
           THEN /\ rb_rows' = Append(rb_rows, parsed)
                /\ rb_k' = rb_k + 1
                /\ UNCHANGED <<rb_pc, rb_missed>>
           ELSE /\ rb_missed' = Append(rb_missed, [line_no |-> ln, text |-> txt])
                /\ rb_k' = rb_k + 1
                /\ UNCHANGED <<rb_pc, rb_rows>>
    /\ UNCHANGED <<rb_args, rb_lines, rb_subset, rb_out>>
    /\ UNCHANGED NotRB

\* main, lines 112-137: the CSV, the missing CSV and the report
RB_Write ==
    /\ rb_pc = "loop"
    /\ rb_k > Len(rb_subset)
    /\ rb_out' = RebuildFiles(rb_rows, rb_missed,
                               [expected_lines |-> Len(rb_subset),
                                parsed_cases |-> Len(rb_rows),
                                unparsed |-> Len(rb_missed),
                                start |-> rb_args.start,
                                end |-> rb_args.end])
    /\ rb_pc' = "done"
    /\ UNCHANGED <<rb_args, rb_lines, rb_subset, rb_k, rb_rows, rb_missed>>
    /\ UNCHANGED NotRB

InitRebuild == RBInit /\ EUIdle /\ VCIdle /\ ESIdle /\ CCIdle /\ EXIdle /\ F10Idle /\ CPIdle /\ OLIdle /\ FCIdle /\ FNIdle /\ PFIdle

NextRebuild == RB_Begin \/ RB_Line \/ RB_Write

SpecRebuild == InitRebuild /\ [][NextRebuild]_vars

\* The lines of the input whose line_no lies in [start, end], in input order.
InRangeLinesRB == SelectSeq(rb_lines, LAMBDA r : rb_args.start <= r.line_no /\ r.line_no <= rb_args.end)

IsParsedRB(r) == parse_line(r.line_no, r.text) # None

IsUnparsedRB(r) == parse_line(r.line_no, r.text) = None

\* C6: when main has ended, every input line whose line_no lies in
\* [start, end] is in exactly one of the output CSV (the lines parse_line
\* gave a row for, as that row) or the missing CSV (the lines parse_line
\* gave None for), and the report has expected_lines = parsed_cases +
\* unparsed, expected_lines being the number of lines of the range.
C6_NoLineDropped ==
    rb_pc \in {"done", "crashed"} =>
        /\ rb_out # None
        /\ LET parsed == SelectSeq(InRangeLinesRB, IsParsedRB)
               unparsed == SelectSeq(InRangeLinesRB, IsUnparsedRB)
           IN  /\ Len(parsed) + Len(unparsed) = Len(InRangeLinesRB)
               /\ rb_out[1] = [k \in 1..Len(parsed) |->
                                 parse_line(parsed[k].line_no, parsed[k].text)]
               /\ rb_out[2] = unparsed
               /\ rb_out[3].expected_lines = Len(InRangeLinesRB)
               /\ rb_out[3].expected_lines = rb_out[3].parsed_cases + rb_out[3].unparsed
               /\ rb_out[3].parsed_cases = Len(rb_out[1])
               /\ rb_out[3].unparsed = Len(rb_out[2])

\* ------------------------------------------------------------------------
\* tools/clean_cases_safe.py
\*
\* Titles are token sequences with their white space explicit, as above.

\* Most rows of data/cases_from_ltj.csv.
MaxRowsCC == 2

COLS == <<"case_id", "Title", "Year", "Citation", "Jurisdiction", "Line">>

\* \d+
IsNumberCC(t) == t \in {"12", "14", "186"}

\* one character of [-, ]
IsSepCC(t) == t \in {"-", ",", " "}

\* The least index i such that s[i..last] are numbers and separators only;
\* last holds a number.
RECURSIVE RefsStart(_, _)
RefsStart(s, i) ==
    IF i > 1 /\ (IsNumberCC(s[i - 1]) \/ IsSepCC(s[i - 1])) THEN RefsStart(s, i - 1) ELSE i

\* re.sub(r"[-, ]*\d+(?:[-, ]*\d+)*\s*$", "", title): the title without
\* its trailing list of numbers, when a number is its last token but for
\* white space.
StripPageRefs(title) ==
    LET last == Len(RStrip(title))
    IN  IF last > 0 /\ IsNumberCC(title[last])
        THEN SubSeq(title, 1, RefsStart(title, last) - 1)
        ELSE title

\* re.sub(r"\s{2,}", " ", s): every run of two or more white-space
\* characters becomes one space.
RECURSIVE CollapseSpaces(_)
CollapseSpaces(s) ==
    IF s = <<>> THEN <<>>
    ELSE IF IsSpace(s[1]) /\ Len(s) >= 2 /\ IsSpace(s[2])
         THEN <<" ">> \o CollapseSpaces(LStrip(s))
         ELSE <<s[1]>> \o CollapseSpaces(Tail(s))

\* clean_title: <<cleaned title, note>>
clean_title(title) ==
    IF ~Truthy(title) THEN <<title, "">>
    ELSE LET cleaned == Strip(StripPageRefs(title))
             note == IF cleaned # title THEN "stripped trailing page refs" ELSE ""
             cleaned2 == CollapseSpaces(cleaned)
         IN  <<cleaned2,
               IF cleaned2 # cleaned /\ note = "" THEN "normalized spaces" ELSE note>>

\* The variant of CleanRow that takes OriginalTitle from the cleaned title.
CleanRow_OriginalFromCleaned(row) ==
    LET title == Get(row, "Title", <<>>)
        c == clean_title(title)
    IN  [k \in Range(COLS) \cup {"OriginalTitle", "CleanNote"} |->
            IF k = "OriginalTitle" THEN c[1]
            ELSE IF k = "Title" THEN c[1]
            ELSE IF k = "CleanNote" THEN c[2]
            ELSE Get(row, k, <<>>)]

\* main, lines 43-48: the output row of an input row
CleanRow(row) ==
    LET title == Get(row, "Title", <<>>)
        c == clean_title(title)
    IN  [k \in Range(COLS) \cup {"OriginalTitle", "CleanNote"} |->
            IF k = "OriginalTitle" THEN title
            ELSE IF k = "Title" THEN c[1]
            ELSE IF k = "CleanNote" THEN c[2]
            ELSE Get(row, k, <<>>)]

TitlesCC ==
    { <<"Smith", " ", "v", " ", "Jones">>,
      <<"Smith", " ", "v", " ", "Jones", ",", " ", "12", "-", "14">>,
      <<"Smith", " ", " ", "v", " ", "Jones">>,
      <<"12", ",", " ", "14">>,
      <<>>,
      <<"A", " ", "[2015]", " ", "JRC", " ", "186">>,
      <<"Smith", "\t", "12", " ">>,
      <<"Smith", " ">> }

\* Rows as rebuild_cases_from_ltj_lines writes them.
RowSetCC ==
    { [k \in Range(COLS) |-> IF k = "Title" THEN t ELSE IF k = "Line" THEN <<l>> ELSE <<>>] :
        t \in TitlesCC, l \in {"1", "2"} }

RowSeqsCC == UNION {[1..n -> RowSetCC] : n \in 0..MaxRowsCC}

NotCC == <<euVars, vcVars, esVars, rbVars, exVars, f10Vars, cpVars, olVars, fcVars, fnVars, pfVars>>

CCInit ==
    /\ cc_input \in RowSeqsCC
    /\ cc_k = 1
    /\ cc_total = 0
    /\ cc_changed = 0
    /\ cc_out_rows = <<>>
    /\ cc_pc = "read"
    /\ cc_out = None

\* main, lines 41-51: one row of the reader
CC_Row ==
    /\ cc_pc = "read"
    /\ cc_k <= Len(cc_input)
    /\ LET new_row == CleanRow(cc_input[cc_k])
       IN  /\ cc_total' = cc_total + 1
           /\ cc_changed' = IF new_row["CleanNote"] # "" THEN cc_changed + 1 ELSE cc_changed
           /\ cc_out_rows' = Append(cc_out_rows, new_row)
    /\ cc_k' = cc_k + 1
    /\ UNCHANGED <<cc_input, cc_pc, cc_out>>
    /\ UNCHANGED NotCC

\* main, lines 53-59: data/cases_clean.csv and out/clean_report.json
CC_Write ==
    /\ cc_pc = "read"
    /\ cc_k > Len(cc_input)
    /\ cc_out' = <<cc_out_rows, [input_rows |-> cc_total, cleaned_titles |-> cc_changed]>>
    /\ cc_pc' = "done"
    /\ UNCHANGED <<cc_input, cc_k, cc_total, cc_changed, cc_out_rows>>
    /\ UNCHANGED NotCC

InitClean == CCInit /\ EUIdle /\ VCIdle /\ ESIdle /\ RBIdle /\ EXIdle /\ F10Idle /\ CPIdle /\ OLIdle /\ FCIdle /\ FNIdle /\ PFIdle

NextClean == CC_Row \/ CC_Write

SpecClean == InitClean /\ [][NextClean]_vars

\* C7: when main has written its files, the output CSV holds one row per
\* input row, in input order (the row at each position carries the Line and
\* the Title, as OriginalTitle, of the input row at that position), and the
\* report's input_rows is the number of output rows.
C7_OneRowPerInputRow ==
    cc_pc = "done" =>
        /\ Len(cc_out[1]) = Len(cc_input)
        /\ \A k \in 1..Len(cc_input) :
              /\ cc_out[1][k]["OriginalTitle"] = cc_input[k]["Title"]
              /\ cc_out[1][k]["Line"] = cc_input[k]["Line"]
        /\ cc_out[2].input_rows = Len(cc_out[1])

\* Two different rows were cleaned, the first one's title changed.
C7_Witness ==
    /\ cc_pc = "done"
    /\ Len(cc_input) = 2
    /\ cc_input[1] # cc_input[2]
    /\ cc_out[1][1]["Title"] # cc_out[1][1]["OriginalTitle"]
    /\ cc_out[1][1]["CleanNote"] = "stripped trailing page refs"

\* ------------------------------------------------------------------------
\* tools/extract_cases_from_lines.py
\*
\* Texts are token sequences with their white space explicit, as above.

\* Most lines of LTJ.lines.json.
MaxLinesEX == 2

\* str.lower() of one word
LowerWord(t) ==
    CASE t = "Re" -> "re"
      [] t = "In" -> "in"
      [] t = "Matter" -> "matter"
      [] t = "Table" -> "table"
      [] t = "Cases" -> "cases"
      [] t = "Smith" -> "smith"
      [] t = "Jones" -> "jones"
      [] t = "Clapham" -> "clapham"
      [] t = "JLR" -> "jlr"
      [] t = "All" -> "all"
      [] t = "ER" -> "er"
      [] t = "A" -> "a"
      [] OTHER -> t

LowerEX(s) == [k \in 1..Len(s) |-> LowerWord(s[k])]

\* \d+
IsNumberEX(t) == t \in {"12", "14", "100", "1990"}

\* \d{4}
IsFourDigits(t) == t = "1990"

\* [[(]\d{4}[\])]
IsBracketYearEX(t) == t \in {"[1990]", "(1990)"}

YearOfEX(t) == IF IsFourDigits(t) \/ IsBracketYearEX(t) THEN "1990" ELSE ""

\* [ivxlcdm]+ without regard to case
IsRomanWord(t) == LowerWord(t) \in {"xiv", "v", "i", "mix"}

\* a token that holds a letter
IsAlphaTok(t) ==
    ~(IsNumberEX(t) \/ IsBracketYearEX(t) \/ IsSpace(t) \/ t \in {",", "-", ".", ";"})

\* a token of one letter
IsOneLetter(t) == LowerWord(t) \in {"a", "v", "i"}

\* the reporter names of REPORTER_START that are one word
IsReporterWord(t) ==
    LowerWord(t) \in {"jlr", "wlr", "ac", "qb", "ch", "fam", "bclc", "ewhc", "ewca",
                      "uksc", "ukpc", "jca", "jrc", "jrcm", "pc", "hl"}

\* The text without its white space.
NoSpace(s) == SelectSeq(s, LAMBDA t : ~IsSpace(t))

\* \d+(-\d+)?(,\d+(-\d+)?)* on a text without white space
RECURSIVE PinItems(_)
PinItems(s) ==
    /\ s # <<>>
    /\ IsNumberEX(s[1])
    /\ LET r == IF Len(s) >= 3 /\ s[2] = "-" /\ IsNumberEX(s[3])
                THEN SubSeq(s, 4, Len(s)) ELSE Tail(s)
       IN  r = <<>> \/ (r[1] = "," /\ PinItems(Tail(r)))

\* PAGE_RANGE_LIST_RE.match(t)
IsPageRangeList(t) == t # <<>> /\ ~IsSpace(t[1]) /\ PinItems(NoSpace(t))

\* ROMAN_RE.match(t)
IsRoman(t) ==
    \/ Len(t) = 1 /\ IsRomanWord(t[1])
    \/ Len(t) = 2 /\ IsRomanWord(t[1]) /\ t[2] = "."

\* TABLE_HEADER_RE.match(t)
IsTableHeader(t) == LowerEX(Strip(t)) = <<"table", " ", "of", " ", "cases">>

looks_like_header_or_noise(text) ==
    LET t == Strip(text)
    IN  \/ t = <<>>
        \/ IsTableHeader(t)
        \/ IsRoman(t)
        \/ IsPageRangeList(t)
        \/ Len(t) = 1 /\ IsOneLetter(t[1])

\* The least index of the set, 0 when it is empty: where re.search finds
\* its first match.
FirstOf(S) == IF S = {} THEN 0 ELSE CHOOSE k \in S : \A j \in S : k <= j

\* RE_FORMS: the token at k ends "Re", "In re", "In the Matter of" or
\* "Matter of".
FormEndsAt(s, k) ==
    \/ LowerWord(s[k]) = "re"
    \/ /\ LowerWord(s[k]) = "of"
       /\ \E j \in 1..(k - 2) :
             /\ LowerWord(s[j]) = "matter"
             /\ \A i \in (j + 1)..(k - 1) : IsSpace(s[i])

\* REPORTER_START matches from the token at k
ReporterAt(s, k) ==
    \/ IsReporterWord(s[k])
    \/ /\ LowerWord(s[k]) = "all"
       /\ LET n == SkipSpace(s, k + 1) IN n <= Len(s) /\ LowerWord(s[n]) = "er"

\* YEAR_RE matches the token at k
YearAt(s, k) ==
    \/ IsBracketYearEX(s[k])
    \/ /\ IsFourDigits(s[k])
       /\ k > 1 /\ IsSpace(s[k - 1])
       /\ k < Len(s) /\ IsSpace(s[k + 1])

\* split_title_and_rest: <<title, rest>>
split_title_and_rest(text) ==
    LET t == RStripSet(Strip(text), {","})
        e == FirstOf({k \in 1..Len(t) : FormEndsAt(t, k)})
        r == FirstOf({k \in 1..Len(t) : ReporterAt(t, k)})
        y == FirstOf({k \in 1..Len(t) : YearAt(t, k)})
        after == SubSeq(t, e + 1, Len(t))
        a == LStrip(after)
    IN  IF e # 0
        THEN <<RStripSet(Strip(SubSeq(t, 1, e)), {","}),
               Strip(IF a # <<>> /\ a[1] = "," THEN Tail(a) ELSE after)>>
        ELSE IF r # 0
        THEN <<RStripSet(Strip(SubSeq(t, 1, r - 1)), {","}), Strip(SubSeq(t, r, Len(t)))>>
        ELSE IF y # 0
        THEN <<RStripSet(Strip(SubSeq(t, 1, y - 1)), {","}), Strip(SubSeq(t, y, Len(t)))>>
        ELSE <<t, <<>>>>

\* extract_year(rest) or ""
extract_year(rest) ==
    LET y == FirstOf({k \in 1..Len(rest) : YearAt(rest, k)}) IN IF y = 0 THEN "" ELSE YearOfEX(rest[y])

\* TRAILING_PINPOINTS_RE matches from the token at k to the end: commas and
\* white space, then a list of page ranges.
PinpointsFrom(s, k) ==
    /\ IsSpace(s[k]) \/ s[k] = ","
    /\ PinItems(LStripSet(NoSpace(SubSeq(s, k, Len(s))), {","}))

\* clean_citation_and_pinpoints: <<citation, pinpoints>>
clean_citation_and_pinpoints(rest) ==
    IF rest = <<>> THEN <<<<>>, <<>>>>
    ELSE LET mrep == FirstOf({k \in 1..Len(rest) : ReporterAt(rest, k)})
             my == FirstOf({k \in 1..Len(rest) : YearAt(rest, k)})
             candidate == IF mrep # 0 THEN Strip(SubSeq(rest, mrep, Len(rest)))
                          ELSE IF my # 0 THEN Strip(SubSeq(rest, my, Len(rest)))
                          ELSE Strip(rest)
             mtrail == FirstOf({k \in 1..Len(candidate) : PinpointsFrom(candidate, k)})
         IN  IF mtrail = 0 THEN <<candidate, <<>>>>
             ELSE <<Strip(RStripSet(SubSeq(candidate, 1, mtrail - 1), {",", ";", " "})),
                    Strip(LStripSet(SubSeq(candidate, mtrail, Len(candidate)),
                                    {",", " ", "\t"}))>>

\* " ".join(title.split()); the re.sub of " v " that follows finds single
\* spaces only and changes nothing.
RECURSIVE JoinSplit(_)
JoinSplit(s) ==
    LET t == Strip(s)
    IN  IF t = <<>> THEN <<>>
        ELSE IF IsSpace(t[1]) THEN <<" ">> \o JoinSplit(t)
        ELSE <<t[1]>> \o (IF Len(t) > 1 /\ IsSpace(t[2])
                          THEN <<" ">> \o JoinSplit(Tail(t))
                          ELSE JoinSplit(Tail(t)))

normalize_title(title) == JoinSplit(title)

\* sorted(rows, key=lambda r: r["line_no"]); a row is
\* <<line_no, title, year, citation, pinpoints>>
RECURSIVE SortRows(_)
SortRows(rows) ==
    IF rows = <<>> THEN <<>>
    ELSE LET m == CHOOSE k \in 1..Len(rows) :
                    /\ \A j \in 1..Len(rows) : rows[k][1] <= rows[j][1]
                    /\ \A j \in 1..(k - 1) : rows[j][1] # rows[k][1]
         IN  <<rows[m]>> \o SortRows(SubSeq(rows, 1, m - 1) \o SubSeq(rows, m + 1, Len(rows)))

\* The interpreter: re.compile of ROMAN_RE, whose flag (?i) is not at the
\* start of the expression, warns up to Python 3.10 and raises re.error
\* from Python 3.11 on.
PythonVersions == {"3.10", "3.11"}

TextsEX ==
    { <<"Smith", " ", "v", " ", "Jones", " ", "[1990]", " ", "JLR", " ", "100", ",", " ", "12", "-", "14">>,
      <<"Clapham", ",", " ", "Re", " ", "[1990]", " ", "JLR", " ", "100">>,
      <<"xiv">>,
      <<" ">>,
      <<"Table", " ", "of", " ", "Cases">>,
      <<"12", "-", "14", ",", " ", "100">>,
      <<"A">>,
      <<"[1990]", " ", "JLR", " ", "100">>,
      <<"JLR", " ", "100">>,
      <<"Table", " ", "of", " ", "Cases", " ", "[1990]">>,
      <<"Smith", "\t", "v", " ", "Jones">> }

\* The lines of LTJ.lines.json carry different line numbers.
DataSetEX ==
    { d \in UNION {[1..n -> [line_no : {1, 2, 3}, text : TextsEX]] : n \in 0..MaxLinesEX} :
        \A j, k \in 1..Len(d) : j # k => d[j].line_no # d[k].line_no }

\* --start-line and --end-line are <<>> when not given.
ArgSetEX == [start_line : {<<>>, <<2>>}, end_line : {<<>>, <<2>>}, skip_report : BOOLEAN]

NotEX == <<euVars, vcVars, esVars, rbVars, ccVars, f10Vars, cpVars, olVars, fcVars, fnVars, pfVars>>

EXInit ==
    /\ ex_python \in PythonVersions
    /\ ex_args \in ArgSetEX
    /\ ex_data \in DataSetEX
    /\ ex_k = 0
    /\ ex_rows = <<>>
    /\ ex_skipped = EmptyDict
    /\ ex_pc = "import"
    /\ ex_out = None

\* lines 24-67: the module compiles its patterns
EX_Import ==
    /\ ex_pc = "import"
    /\ IF ex_python = "3.11"
       THEN ex_pc' = "crashed" /\ UNCHANGED ex_k
       ELSE ex_pc' = "loop" /\ ex_k' = 1
    /\ UNCHANGED <<ex_python, ex_args, ex_data, ex_rows, ex_skipped, ex_out>>
    /\ UNCHANGED NotEX

\* main, lines 187-225: one object of the data
EX_Line ==
    /\ ex_pc = "loop"
    /\ ex_k <= Len(ex_data)
    /\ LET line_no == ex_data[ex_k].line_no
           text == ex_data[ex_k].text
           tr == split_title_and_rest(text)
           title == normalize_title(tr[1])
           year == extract_year(tr[2])
           cp == clean_citation_and_pinpoints(tr[2])
       IN  IF \/ ex_args.start_line # <<>> /\ line_no < ex_args.start_line[1]
              \/ ex_args.end_line # <<>> /\ line_no > ex_args.end_line[1]
              \/ looks_like_header_or_noise(text)
           THEN UNCHANGED <<ex_rows, ex_skipped>>
           ELSE IF title = <<>> \/ LowerEX(title) = <<"table", " ", "of", " ", "cases">>
           THEN /\ ex_skipped' = Put(ex_skipped, line_no,
                                     [text |-> text, reason |-> "title-empty-or-header"])
                /\ UNCHANGED ex_rows
           ELSE IF ~\E k \in 1..Len(title) : IsAlphaTok(title[k])
           THEN /\ ex_skipped' = Put(ex_skipped, line_no,
                                     [text |-> text, reason |-> "no-alpha-in-title"])
                /\ UNCHANGED ex_rows
           ELSE /\ ex_rows' = Append(ex_rows, <<line_no, title, year, cp[1], cp[2]>>)
                /\ UNCHANGED ex_skipped
    /\ ex_k' = ex_k + 1
    /\ UNCHANGED <<ex_python, ex_args, ex_data, ex_pc, ex_out>>
    /\ UNCHANGED NotEX

\* main, lines 227-237: the CSV and, if asked for, the skip report
EX_Write ==
    /\ ex_pc = "loop"
    /\ ex_k > Len(ex_data)
    /\ ex_out' = <<SortRows(ex_rows), IF ex_args.skip_report THEN <<ex_skipped>> ELSE <<>>>>
    /\ ex_pc' = "done"
    /\ UNCHANGED <<ex_python, ex_args, ex_data, ex_k, ex_rows, ex_skipped>>
    /\ UNCHANGED NotEX

InitExtract == EXInit /\ EUIdle /\ VCIdle /\ ESIdle /\ RBIdle /\ CCIdle /\ F10Idle /\ CPIdle /\ OLIdle /\ FCIdle /\ FNIdle /\ PFIdle

NextExtract == EX_Import \/ EX_Line \/ EX_Write

SpecExtract == InitExtract /\ [][NextExtract]_vars

\* The line lies inside [start-line, end-line].
InRangeEX(line) ==
    /\ ex_args.start_line # <<>> => line.line_no >= ex_args.start_line[1]
    /\ ex_args.end_line # <<>> => line.line_no <= ex_args.end_line[1]

\* A folio roman numeral, a blank line or a "Table of Cases" header.
DocumentedSkip(text) ==
    \/ Strip(text) = <<>>
    \/ IsRoman(Strip(text))
    \/ IsTableHeader(text)

\* C8: when the script has ended and --skip-report was given, every input
\* line inside [start-line, end-line] other than a folio roman numeral, a
\* blank line or a "Table of Cases" header is either one row of the CSV or
\* an entry of the skip report under its line_no with a reason, never
\* neither and never both.
C8_NeverSilentlyDrops ==
    (ex_pc \in {"done", "crashed"} /\ ex_args.skip_report) =>
        \A k \in 1..Len(ex_data) :
            (InRangeEX(ex_data[k]) /\ ~DocumentedSkip(ex_data[k].text)) =>
                /\ ex_out # None
                /\ LET n == Cardinality({j \in 1..Len(ex_out[1]) :
                                          ex_out[1][j][1] = ex_data[k].line_no})
                       report == ex_out[2][1]
                       ln == ex_data[k].line_no
                   IN  \/ n = 1 /\ ln \notin DOMAIN report
                       \/ n = 0 /\ ln \in DOMAIN report /\ report[ln].reason # ""

\* ------------------------------------------------------------------------
\* tools/enrich_first10.py

\* Most data rows of the input CSV.
MaxRowsF10 == 5

\* Largest --abort-after.
MaxAbortF10 == 2

URL_KEYS == <<"jerseylaw_search", "bailii_search", "ddg_site_jl", "ddg_site_bailii", "ddg_open">>

\* norm that keeps the white space
norm_f10_NoStrip(s) == Or(s, <<>>)

\* norm: (s or "").strip()
norm_f10(s) == Strip(Or(s, <<>>))

build_query(title, citation) ==
    LET t == norm_f10(title)
        c == norm_f10(citation)
    IN  IF t = <<>> THEN <<>>
        ELSE IF c # <<>> THEN t \o <<" ">> \o c
        ELSE t

\* urllib.parse.urlencode of one value: quote_plus, token by token
QuotePlusTok(t) ==
    CASE t = " " -> "+"
      [] t = "\t" -> "%09"
      [] t = "[2015]" -> "%5B2015%5D"
      [] t = "[1990]" -> "%5B1990%5D"
      [] t = "site:" -> "site%3A"
      [] OTHER -> t

QuotePlus(s) == [k \in 1..Len(s) |-> QuotePlusTok(s[k])]

bailii_search(query) ==
    <<"https://www.bailii.org/cgi-bin/sino_search_1.cgi", "?", "query", "=">> \o QuotePlus(query)

jerseylaw_search(query) ==
    <<"https://www.jerseylaw.je/search/Pages/Results.aspx", "?", "k", "=">> \o QuotePlus(query)

ddg_open(query) == <<"https://duckduckgo.com/", "?", "q", "=">> \o QuotePlus(query)

ddg_site(query, site) ==
    <<"https://duckduckgo.com/", "?", "q", "=">> \o QuotePlus(<<"site:", site, " ">> \o query)

\* urls.get(k) is a non-empty string
Present(urls, k) == k \in DOMAIN urls /\ urls[k] # <<>>

\* choose_primary, lines 106-107: looks_jersey
CitationLooksJersey(citation) ==
    LET c == [k \in 1..Len(Or(citation, <<>>)) |-> UpperTok(citation[k])]
    IN  \E tok \in {<<"JLR">>, <<"JRC">>, <<"JCA">>, <<"JCT">>,
                    <<"ROYAL", " ", "COURT">>, <<"JERSEY">>} : Contains(c, tok)

\* The variant of choose_primary that prefers the JerseyLaw search whatever
\* the citation.
choose_primary_AlwaysJersey(title, citation, urls) ==
    IF Present(urls, "jerseylaw_search") THEN urls["jerseylaw_search"]
    ELSE IF Present(urls, "bailii_search") THEN urls["bailii_search"]
    ELSE IF Present(urls, "ddg_site_bailii") THEN urls["ddg_site_bailii"]
    ELSE IF Present(urls, "ddg_open") THEN urls["ddg_open"]
    ELSE IF Present(urls, "ddg_site_jl") THEN urls["ddg_site_jl"]
    ELSE <<>>

choose_primary(title, citation, urls) ==
    IF CitationLooksJersey(citation) /\ Present(urls, "jerseylaw_search")
    THEN urls["jerseylaw_search"]
    ELSE IF Present(urls, "bailii_search") THEN urls["bailii_search"]
    ELSE IF Present(urls, "ddg_site_bailii") THEN urls["ddg_site_bailii"]
    ELSE IF Present(urls, "ddg_open") THEN urls["ddg_open"]
    ELSE IF Present(urls, "ddg_site_jl") THEN urls["ddg_site_jl"]
    ELSE <<>>

\* main, lines 247-253: the candidate URLs of a query
CandidateUrls(query) ==
    [k \in Range(URL_KEYS) |->
        CASE k = "jerseylaw_search" -> jerseylaw_search(query)
          [] k = "bailii_search" -> bailii_search(query)
          [] k = "ddg_site_jl" -> ddg_site(query, "jerseylaw.je")
          [] k = "ddg_site_bailii" -> ddg_site(query, "bailii.org")
          [] k = "ddg_open" -> ddg_open(query)]

\* The variant of NextConsecFail in which a success leaves the count alone.
NextConsecFail_NoReset(failed, count) == IF failed THEN count + 1 ELSE count

\* main, lines 230, 273 and 277: consec_fail after a row
NextConsecFail(failed, count) == IF failed THEN count + 1 ELSE 0

TitlesF10 == {<<" ">>, <<"Smith", " ", "v", " ", "Jones">>}

CitationsF10 == {<<>>, <<"[2015]", " ", "JRC", " ", "186">>}

\* Rows as read_cases_csv returns them.
RowSetF10 == [Title : TitlesF10, Citation : CitationsF10, Year : {<<"2015">>}]

RowSeqsF10 == UNION {[1..n -> RowSetF10] : n \in 0..MaxRowsF10}

ArgSetF10 == [start : {-1, 1}, limit : {0, 2}, abort_after : 0..MaxAbortF10]

NotF10 == <<euVars, vcVars, esVars, rbVars, ccVars, exVars, cpVars, olVars, fcVars, fnVars, pfVars>>

\* The three files main writes: cases_preview.csv, urls_preview.json and
\* skipped_preview.json.
PreviewFiles(results, urls_index, skipped) ==
    <<[k \in 1..Len(results) |->
          [Title |-> results[k].title, Citation |-> results[k].citation, Url |-> results[k].url]],
      urls_index, skipped>>

F10Init ==
    /\ f10_args \in ArgSetF10
    /\ f10_rows \in RowSeqsF10
    /\ f10_window = <<>>
    /\ f10_i = 1
    /\ f10_results = <<>>
    /\ f10_urls_index = EmptyDict
    /\ f10_skipped = EmptyDict
    /\ f10_ok = 0
    /\ f10_ko = 0
    /\ f10_consec_fail = 0
    /\ f10_aborted = FALSE
    /\ f10_pc = "start"
    /\ f10_out = None

\* main, lines 197-221: empty artifacts for an empty input, else the window
F10_Begin ==
    /\ f10_pc = "start"
    /\ IF f10_rows = <<>>
       THEN /\ f10_out' = PreviewFiles(<<>>, EmptyDict, EmptyDict)
            /\ f10_pc' = "done"
            /\ UNCHANGED f10_window
       ELSE LET start == Max(0, f10_args.start)
                end == IF f10_args.limit <= 0 THEN Len(f10_rows)
                       ELSE Min(Len(f10_rows), start + f10_args.limit)
            IN  /\ f10_window' = SubSeq(f10_rows, start + 1, end)
                /\ f10_pc' = "loop"
                /\ UNCHANGED f10_out
    /\ UNCHANGED <<f10_args, f10_rows, f10_i, f10_results, f10_urls_index, f10_skipped,
                   f10_ok, f10_ko, f10_consec_fail, f10_aborted>>
    /\ UNCHANGED NotF10

\* main, lines 224-291: one row of the window.  raised is whether building
\* the query and its URLs raises an exception.
F10_Row ==
    /\ f10_pc = "loop"
    /\ f10_i <= Len(f10_window)
    /\ \E raised \in BOOLEAN :
         LET row == f10_window[f10_i]
             title == norm_f10(Get(row, "Title", <<>>))
             citation == norm_f10(Get(row, "Citation", <<>>))
             key == Max(0, f10_args.start) + (f10_i - 1)
             query == build_query(title, citation)
             u == CandidateUrls(query)
             primary == choose_primary(title, citation, u)
             failed == title = <<>> \/ raised \/ query = <<>>
             count == NextConsecFail(failed, f10_consec_fail)
         IN  /\ title = <<>> => ~raised
             /\ f10_consec_fail' = count
             /\ IF failed
                THEN /\ f10_ko' = f10_ko + 1
                     /\ f10_skipped' =
                          Put(f10_skipped, key,
                              [title |-> title,
                               reason |-> IF title = <<>> THEN "no-title"
                                          ELSE IF raised THEN "exception"
                                          ELSE "empty-query"])
                     /\ UNCHANGED <<f10_ok, f10_urls_index, f10_results>>
                     /\ IF count >= f10_args.abort_after
                        THEN f10_aborted' = TRUE /\ f10_pc' = "write" /\ UNCHANGED f10_i
                        ELSE f10_i' = f10_i + 1 /\ UNCHANGED <<f10_aborted, f10_pc>>
                ELSE /\ f10_urls_index' =
                          Put(f10_urls_index, key,
                              [title |-> title, year |-> Get(row, "Year", <<>>),
                               citation |-> citation, query |-> query, urls |-> u,
                               primary_suggested |-> primary])
                     /\ f10_results' =
                          Append(f10_results, [title |-> title, citation |-> citation, url |-> primary])
                     /\ f10_ok' = f10_ok + 1
                     /\ f10_i' = f10_i + 1
                     /\ UNCHANGED <<f10_ko, f10_skipped, f10_aborted, f10_pc>>
    /\ UNCHANGED <<f10_args, f10_rows, f10_window, f10_out>>
    /\ UNCHANGED NotF10

\* main, lines 296-313: the three output files
F10_Write ==
    /\ \/ f10_pc = "write"
       \/ f10_pc = "loop" /\ f10_i > Len(f10_window)
    /\ f10_out' = PreviewFiles(f10_results, f10_urls_index, f10_skipped)
    /\ f10_pc' = "done"
    /\ UNCHANGED <<f10_args, f10_rows, f10_window, f10_i, f10_results, f10_urls_index,
                   f10_skipped, f10_ok, f10_ko, f10_consec_fail, f10_aborted>>
    /\ UNCHANGED NotF10

InitF10 == F10Init /\ EUIdle /\ VCIdle /\ ESIdle /\ RBIdle /\ CCIdle /\ EXIdle /\ CPIdle /\ OLIdle /\ FCIdle /\ FNIdle /\ PFIdle

NextF10 == F10_Begin \/ F10_Row \/ F10_Write

SpecF10 == InitF10 /\ [][NextF10]_vars

\* The rows of the window the loop has been through.
ProcessedF10 == IF f10_aborted THEN f10_i ELSE f10_i - 1

\* The absolute index of the k-th row of the window.
KeyF10(k) == Max(0, f10_args.start) + (k - 1)

\* The k-th row of the window failed: its title is empty or an exception
\* was raised for it, so it is in skipped.
FailedF10(k) == KeyF10(k) \in DOMAIN f10_skipped

\* The number of failed rows at the end of the processed rows.
TrailingFailsF10 ==
    Cardinality({k \in 1..ProcessedF10 : \A j \in k..ProcessedF10 : FailedF10(j)})

\* C9: the consecutive-failure count is the number of failed rows since the
\* last successful one; the loop has stopped if and only if the last row it
\* processed failed and brought that number to abort_after; once stopped, no
\* row after that one is in results, urls_index or skipped; and when main
\* has ended the three files hold results, urls_index and skipped.
C9_AbortAfterConsecutiveFailures ==
    f10_pc \in {"loop", "write", "done"} =>
        /\ f10_consec_fail = TrailingFailsF10
        /\ f10_aborted <=>
              /\ ProcessedF10 >= 1
              /\ FailedF10(ProcessedF10)
              /\ TrailingFailsF10 >= f10_args.abort_after
        /\ f10_aborted => f10_pc \in {"write", "done"}
        /\ \A k \in (ProcessedF10 + 1)..Len(f10_window) :
              KeyF10(k) \notin DOMAIN f10_urls_index \cup DOMAIN f10_skipped
        /\ Len(f10_results) + Cardinality(DOMAIN f10_skipped) = ProcessedF10
        /\ f10_pc = "done" =>
              /\ f10_out # None
              /\ Len(f10_out[1]) = Len(f10_results)
              /\ \A k \in 1..Len(f10_results) : f10_out[1][k].Url = f10_results[k].url
              /\ f10_out[2] = f10_urls_index
              /\ f10_out[3] = f10_skipped

\* A run that went on after a failure followed by a success, then stopped
\* at the second of two failures in a row with a row of the window left,
\* and wrote its files.
C9_Witness ==
    /\ f10_pc = "done"
    /\ f10_aborted
    /\ f10_args.abort_after = 2
    /\ ProcessedF10 = 4
    /\ ProcessedF10 < Len(f10_window)
    /\ FailedF10(1) /\ ~FailedF10(2) /\ FailedF10(3) /\ FailedF10(4)
    /\ f10_out[3] = f10_skipped

\* ------------------------------------------------------------------------
\* tools/enrich_first10.py, choose_primary on its own: any citation, any
\* urls map whose keys are among URL_KEYS, each value empty or a URL.

CitationsCP ==
    { <<>>,
      <<"[2015]", " ", "JRC", " ", "186">>,
      <<"[2015]", " ", "jrc", " ", "186">>,
      <<"Royal", " ", "Court", " ", "2015">>,
      <<"Court", " ", "Royal">>,
      <<"[1990]", " ", "1", " ", "AC", " ", "12">> }

UrlMapsCP ==
    { [k \in D |-> IF k \in E THEN <<>> ELSE CandidateUrls(<<"Smith">>)[k]] :
        D \in SUBSET Range(URL_KEYS), E \in SUBSET Range(URL_KEYS) }

NotCP == <<euVars, vcVars, esVars, rbVars, ccVars, exVars, f10Vars, olVars, fcVars, fnVars, pfVars>>

CPInit ==
    /\ cp_citation \in CitationsCP
    /\ cp_urls \in UrlMapsCP
    /\ cp_result = <<>>
    /\ cp_pc = "call"

CP_Call ==
    /\ cp_pc = "call"
    /\ cp_result' = choose_primary(<<"Smith">>, cp_citation, cp_urls)
    /\ cp_pc' = "returned"
    /\ UNCHANGED <<cp_citation, cp_urls>>
    /\ UNCHANGED NotCP

InitChoose == CPInit /\ EUIdle /\ VCIdle /\ ESIdle /\ RBIdle /\ CCIdle /\ EXIdle /\ F10Idle /\ OLIdle /\ FCIdle /\ FNIdle /\ PFIdle

NextChoose == CP_Call

SpecChoose == InitChoose /\ [][NextChoose]_vars

\* The keys of a chain, in order, that are present in the map.
PresentInChain(chain, urls) == SelectSeq(chain, LAMBDA k : Present(urls, k))

\* The first present URL of a chain, the empty string when none is present.
FirstPresent(chain, urls) ==
    IF PresentInChain(chain, urls) = <<>> THEN <<>>
    ELSE urls[PresentInChain(chain, urls)[1]]

\* The citation suggests Jersey reports and a jerseylaw_search URL is present.
PrefersJerseyLaw == CitationLooksJersey(cp_citation) /\ Present(cp_urls, "jerseylaw_search")

MaxRowsOL == 2

\* The key csv.DictReader files the cells beyond the header under (None);
\* their value is a list.
RestKey == "<None>"

\* (k or "").strip().lower() of a header
NormKey(k) ==
    CASE k = RestKey -> ""
      [] k = "URL" -> "url"
      [] k = "Title" -> "title"
      [] OTHER -> k

\* read_cases_csv, lines 76-77: the row with normalized keys and stripped
\* values; the list under RestKey has no strip, which raises AttributeError.
NormalizeKeys(r) ==
    IF RestKey \in DOMAIN r THEN <<"raise", "AttributeError">>
    ELSE [k \in {NormKey(x) : x \in DOMAIN r} |->
            Strip(Or(r[CHOOSE x \in DOMAIN r : NormKey(x) = k], <<>>))]

pick(r, names) ==
    LET hits == SelectSeq(names, LAMBDA n : Truthy(Get(r, n, None)))
    IN  IF hits = <<>> THEN <<>> ELSE r[hits[1]]

normalize_row(r) ==
    [case_id |-> pick(r, <<"case_id", "id">>),
     title |-> pick(r, <<"title", "case", "name", "raw">>),
     citation |-> pick(r, <<"citation", "cite">>),
     jurisdiction |-> pick(r, <<"jurisdiction", "juris">>),
     ltj_refs |-> pick(r, <<"ltj_refs", "ltj", "refs">>),
     url |-> pick(r, <<"url", "source_url">>)]

\* urlparse(url) raises ValueError when the netloc holds a bracket that
\* does not enclose an IP address.
UrlParseRaises(url) ==
    LET host == Netloc(url)
    IN  /\ \E k \in 1..Len(host) : host[k] \in {"[", "]"}
        /\ host # <<"[", "::1", "]">>

\* What a DuckDuckGo request can come back with: no answer (an exception
\* or a status other than 200), or a page with these links.
DDGPagesOL == {None, <<ES_CM, ES_BA>>, <<ES_JL>>}

\* ddg_first_result: the link it returns for a page; the first link on a
\* preferred domain, else the first link, else None.
ddg_first_result(page, prefer_domains) ==
    IF page = None THEN None
    ELSE LET pref == SelectSeq(page, LAMBDA href :
                        \E dom \in Range(prefer_domains) : Contains(Lower(Netloc(href)), dom))
         IN  IF pref # <<>> THEN pref[1]
             ELSE IF page # <<>> THEN page[1]
             ELSE None

\* resolve_urls: <<bailii, jl, ddg, final_url, notes>> for the answers of
\* the three searches, or the exception urlparse raises.  Without an
\* existing URL the three searches are issued and pb, pj, pa are their pages.
resolve_urls(title, citation, existing_url, pb, pj, pa) ==
    IF Truthy(existing_url) THEN
        IF UrlParseRaises(existing_url) THEN <<"raise", "ValueError">>
        ELSE LET host == Lower(Netloc(existing_url))
             IN  <<IF Contains(host, <<"bailii", ".", "org">>) THEN existing_url ELSE None,
                   IF Contains(host, <<"jerseylaw", ".", "je">>) THEN existing_url ELSE None,
                   None, existing_url, <<>>>>
    ELSE LET bailii == ddg_first_result(pb, << <<"bailii", ".", "org">> >>)
             jl == ddg_first_result(pj, << <<"jerseylaw", ".", "je">> >>)
             ddg_any == ddg_first_result(pa, <<>>)
             final_url == Or(jl, Or(bailii, ddg_any))
         IN  <<bailii, jl, ddg_any, final_url,
               IF Truthy(final_url) THEN <<>> ELSE <<"no_url_resolved">>>>

\* The searches resolve_urls issues for row k
SearchesOL(k, existing_url) ==
    IF Truthy(existing_url) THEN {}
    ELSE {<<k, "ddg_bailii">>, <<k, "ddg_jerseylaw">>, <<k, "ddg">>}

\* fetch_once: <<status, http_code, html_text>>
FetchOutcomesOL ==
    {<<"ok", 200, <<"html">>>>, <<"error", 404, None>>, <<"error", 0, None>>}

\* main, lines 268-306: the output row of a row, for the result of
\* resolve_urls and the outcome of fetch_once
OutRowOL(base, res, fetched) ==
    LET final_url == res[4]
        notes == IF Truthy(final_url)
                 THEN IF fetched[1] # "ok" THEN res[5] \o <<"fetch_failed">> ELSE res[5]
                 ELSE res[5] \o <<"no_final_url">>
    IN  [title |-> base.title,
         citation |-> base.citation,
         ddg_url |-> Or(res[3], <<>>),
         bailii_url |-> Or(res[1], <<>>),
         jerseylaw_url |-> Or(res[2], <<>>),
         final_url |-> Or(final_url, <<>>),
         fetch_status |-> IF Truthy(final_url) THEN fetched[1] ELSE "skipped",
         http_status |-> IF Truthy(final_url) /\ fetched[2] # 0 THEN fetched[2] ELSE 0,
         parsed |-> Truthy(final_url) /\ fetched[1] = "ok" /\ Truthy(fetched[3]),
         notes |-> notes]

OL_BA == <<"https", "://", "www", ".", "bailii", ".", "org", "/", "b">>
OL_Bracket == <<"http", "://", "[", "bad">>
TitleOL == <<"Smith", " ", "v", " ", "Jones">>

\* Rows as csv.DictReader yields them
RawRowsOL ==
    {[title |-> TitleOL, url |-> OL_BA],
     [title |-> TitleOL, url |-> OL_Bracket],
     [Title |-> TitleOL, URL |-> <<" ">> \o ES_JL \o <<" ">>],
     [title |-> TitleOL, url |-> <<" ">>],
     ("<None>" :> <<"x">>) @@ [title |-> TitleOL, url |-> OL_BA]}

RawSeqsOL == UNION {[1..n -> RawRowsOL] : n \in 0..MaxRowsOL}

NotOL == <<euVars, vcVars, esVars, rbVars, ccVars, exVars, f10Vars, cpVars, fcVars, fnVars, pfVars>>

OLInit ==
    /\ ol_input \in RawSeqsOL
    /\ ol_rows = <<>>
    /\ ol_k = 0
    /\ ol_out_rows = <<>>
    /\ ol_searched = {}
    /\ ol_fetched = {}
    /\ ol_pc = "start"
    /\ ol_out = None

\* main, line 255: rows = read_cases_csv(IN_CSV)
OL_Begin ==
    /\ ol_pc = "start"
    /\ IF \E k \in 1..Len(ol_input) : RestKey \in DOMAIN ol_input[k]
       THEN ol_pc' = "crashed" /\ UNCHANGED ol_rows
       ELSE /\ ol_rows' = [k \in 1..Len(ol_input) |-> NormalizeKeys(ol_input[k])]
            /\ ol_pc' = "rows"
    /\ ol_k' = 1
    /\ UNCHANGED <<ol_input, ol_out_rows, ol_searched, ol_fetched, ol_out>>
    /\ UNCHANGED NotOL

\* main, lines 258-306: one iteration of the loop over rows
OL_Row ==
    /\ ol_pc = "rows"
    /\ ol_k <= Len(ol_rows)
    /\ \E pb \in DDGPagesOL \ {<<ES_JL>>}, pj \in DDGPagesOL \ {<<ES_CM, ES_BA>>},
          pa \in DDGPagesOL \ {<<ES_JL>>}, fetched \in FetchOutcomesOL :
        LET base == normalize_row(ol_rows[ol_k])
            res == resolve_urls(base.title, base.citation, base.url, pb, pj, pa)
        IN  IF res[1] = "raise"
            THEN /\ ol_pc' = "crashed"
                 /\ UNCHANGED <<ol_k, ol_out_rows, ol_searched, ol_fetched>>
            ELSE /\ ol_searched' = ol_searched \cup SearchesOL(ol_k, base.url)
                 /\ ol_fetched' = IF Truthy(res[4]) THEN ol_fetched \cup {<<ol_k, res[4]>>}
                                  ELSE ol_fetched
                 /\ ol_out_rows' = Append(ol_out_rows, OutRowOL(base, res, fetched))
                 /\ ol_k' = ol_k + 1
                 /\ ol_pc' = "rows"
    /\ UNCHANGED <<ol_input, ol_rows, ol_out>>
    /\ UNCHANGED NotOL

\* main, lines 308-334: cases_enriched.csv and run_report.json
OL_Write ==
    /\ ol_pc = "rows"
    /\ ol_k > Len(ol_rows)
    /\ ol_out' = <<ol_out_rows, [input_rows |-> Len(ol_rows), output_rows |-> Len(ol_out_rows)]>>
    /\ ol_pc' = "done"
    /\ UNCHANGED <<ol_input, ol_rows, ol_k, ol_out_rows, ol_searched, ol_fetched>>
    /\ UNCHANGED NotOL

InitOL == OLInit /\ EUIdle /\ VCIdle /\ ESIdle /\ RBIdle /\ CCIdle /\ EXIdle /\ F10Idle /\ CPIdle /\ FCIdle /\ FNIdle /\ PFIdle

NextOL == OL_Begin \/ OL_Row \/ OL_Write

SpecOL == InitOL /\ [][NextOL]_vars

\* --- properties of enrich_one_list ---

\* The url cell of input row k as read_cases_csv keeps it
InputUrlOL(k) ==
    LET r == ol_input[k]
        keys == {x \in DOMAIN r : NormKey(x) = "url"}
    IN  IF keys = {} THEN <<>> ELSE Strip(r[CHOOSE x \in keys : TRUE])

\* C11: once enrich_one_list has ended, every row whose url is non-empty
\* has that URL unchanged as its final_url in cases_enriched.csv, and no
\* search request was issued for it.
C11_RespectsExistingUrl ==
    ol_pc \in {"done", "crashed"} =>
        \A k \in 1..Len(ol_input) :
            InputUrlOL(k) # <<>> =>
                /\ ol_out # None
                /\ k <= Len(ol_out[1])
                /\ ol_out[1][k].final_url = InputUrlOL(k)
                /\ \A q \in ol_searched : q[1] # k

\* ------------------------------------------------------------------------
\* tools/fetch_cases.py, with http_get of tools/util.py
\*
\* Response bodies are sequences of characters.

\* Most data rows of the input CSV.
MaxRowsFC == 2

\* The names tools/util.py defines
UtilNames ==
    {"HDRS", "sleep_jitter", "FetchError", "http_get", "_ROMAN", "norm_title",
     "plausible_match", "ddg_first", "jlib_search_url", "jlib_pick_direct_from_results",
     "jlib_extract_pdf", "jlib_find", "bailii_search_url", "bailii_pick_direct_from_results",
     "bailii_extract_pdf", "bailii_find", "pick_best_url"}

\* fetch_cases.py, line 23: the names it imports from tools.util
ImportedFC == {"read_csv", "ensure_dir", "safe_filename", "http_get", "sleep_jitter", "save_json"}

\* The tools.util on the import path: the file of this tree, or one that
\* also defines read_csv, ensure_dir, safe_filename and save_json and has
\* the same http_get.
UtilsFC == {"tree", "with-helpers"}

UtilDefines(util) ==
    IF util = "tree" THEN UtilNames
    ELSE UtilNames \cup {"read_csv", "ensure_dir", "safe_filename", "save_json"}

\* What requests.get can do: raise RequestException (code 0), or answer
\* with a status code and a body.
ResponsesFC ==
    {<<0, <<>>>>, <<404, <<"n", "o">>>>, <<200, <<>>>>, <<200, <<"o", "k">>>>,
     <<200, <<"<", "p", ">">>>>}

\* util.http_get(url, params): the text of the answer, or FetchError for a
\* status of 400 and more and for a RequestException.
http_get(url, params, resp) ==
    IF resp[1] = 0 \/ resp[1] >= 400 THEN <<"raise", "FetchError">>
    ELSE <<"return", resp[2]>>

\* status, text = <a str>: two characters unpack, any other length raises
\* ValueError.
UnpackPair(s) ==
    IF Len(s) = 2 THEN <<"return", <<"str", s[1]>>, <<s[2]>>>>
    ELSE <<"raise", "ValueError">>

\* safe_filename(f"{case_id}.html")
safe_filename(case_id) == case_id \o <<".html">>

\* main, lines 50-65: <<list, rec, file>> for row k: the list the record
\* goes to, the record, and the file written (None when there is none)
FetchRow(k, case_id, url, resp) ==
    LET got == http_get(url, "session", resp)
        pair == IF got[1] = "raise" THEN got ELSE UnpackPair(got[2])
    IN  IF pair[1] = "raise"
        THEN <<"failed", [row |-> k, case_id |-> case_id, url |-> url,
                          status |-> None, error |-> pair[2]], None>>
        ELSE IF pair[2] = <<"int", 200>> /\ Truthy(pair[3])
        THEN <<"ok", [row |-> k, case_id |-> case_id, url |-> url,
                      status |-> pair[2], html_file |-> safe_filename(case_id)],
               <<safe_filename(case_id), pair[3]>>>>
        ELSE <<"failed", [row |-> k, case_id |-> case_id, url |-> url,
                          status |-> pair[2], error |-> "non-200 or empty body"], None>>

FC_U == <<"https", "://", "www", ".", "bailii", ".", "org", "/", "b">>

\* Rows <<case_id, source_url>> as read_csv yields them
RowSetFC ==
    {<<<<"a1">>, FC_U>>, <<<<" ", "a2">>, FC_U \o <<" ">>>>,
     <<<<" ">>, FC_U>>, <<<<"a3">>, <<>>>>}

RowSeqsFC == UNION {[1..n -> RowSetFC] : n \in 0..MaxRowsFC}

NotFC == <<euVars, vcVars, esVars, rbVars, ccVars, exVars, f10Vars, cpVars, olVars, fnVars, pfVars>>

FCInit ==
    /\ fc_util \in UtilsFC
    /\ fc_input \in RowSeqsFC
    /\ fc_k = 0
    /\ fc_ok = <<>>
    /\ fc_failed = <<>>
    /\ fc_files = {}
    /\ fc_pc = "import"
    /\ fc_report = None

\* line 23: from tools.util import ...; a name tools.util lacks raises
\* ImportError.
FC_Import ==
    /\ fc_pc = "import"
    /\ fc_pc' = IF ImportedFC \subseteq UtilDefines(fc_util) THEN "main" ELSE "crashed"
    /\ UNCHANGED <<fc_util, fc_input, fc_k, fc_ok, fc_failed, fc_files, fc_report>>
    /\ UNCHANGED NotFC

\* main, lines 26-42
FC_Begin ==
    /\ fc_pc = "main"
    /\ fc_k' = 1
    /\ fc_pc' = "rows"
    /\ UNCHANGED <<fc_util, fc_input, fc_ok, fc_failed, fc_files, fc_report>>
    /\ UNCHANGED NotFC

\* main, lines 44-67: one iteration of the loop over rows
FC_Row ==
    /\ fc_pc = "rows"
    /\ fc_k <= Len(fc_input)
    /\ LET case_id == Strip(fc_input[fc_k][1])
           url == Strip(fc_input[fc_k][2])
       IN  IF ~Truthy(case_id) \/ ~Truthy(url)
           THEN UNCHANGED <<fc_ok, fc_failed, fc_files>>
           ELSE \E resp \in ResponsesFC :
                  LET res == FetchRow(fc_k, case_id, url, resp)
                  IN  /\ fc_ok' = IF res[1] = "ok" THEN Append(fc_ok, res[2]) ELSE fc_ok
                      /\ fc_failed' = IF res[1] = "failed" THEN Append(fc_failed, res[2])
                                      ELSE fc_failed
                      /\ fc_files' = IF res[3] # None THEN fc_files \cup {res[3]} ELSE fc_files
    /\ fc_k' = fc_k + 1
    /\ UNCHANGED <<fc_util, fc_input, fc_pc, fc_report>>
    /\ UNCHANGED NotFC

\* main, line 69: save_json(results, report_path)
FC_Write ==
    /\ fc_pc = "rows"
    /\ fc_k > Len(fc_input)
    /\ fc_report' = <<fc_ok, fc_failed>>
    /\ fc_pc' = "done"
    /\ UNCHANGED <<fc_util, fc_input, fc_k, fc_ok, fc_failed, fc_files>>
    /\ UNCHANGED NotFC

InitFetch == FCInit /\ EUIdle /\ VCIdle /\ ESIdle /\ RBIdle /\ CCIdle /\ EXIdle /\ F10Idle /\ CPIdle /\ OLIdle /\ FNIdle /\ PFIdle

NextFetch == FC_Import \/ FC_Begin \/ FC_Row \/ FC_Write

SpecFetch == InitFetch /\ [][NextFetch]_vars

\* --- properties of fetch_cases ---

\* Row k has a non-empty case_id and source_url
EligibleFC(k) == Truthy(Strip(fc_input[k][1])) /\ Truthy(Strip(fc_input[k][2]))

\* The records of row k in a list of the report
RecsFC(list, k) == {j \in 1..Len(list) : list[j].row = k}

\* C12: once fetch_cases has ended the report is written and every row
\* with a non-empty case_id and source_url has exactly one record in it,
\* in ok (status 200, HTML file written) or in failed (no file written).
C12_EveryRowReported ==
    fc_pc \in {"done", "crashed"} =>
        \A k \in 1..Len(fc_input) :
             EligibleFC(k) =>
                /\ fc_report # None
                /\ Cardinality(RecsFC(fc_report[1], k)) + Cardinality(RecsFC(fc_report[2], k)) = 1
                /\ \A j \in RecsFC(fc_report[1], k) :
                      /\ fc_report[1][j].status = <<"int", 200>>
                      /\ \E f \in fc_files : f[1] = fc_report[1][j].html_file
                /\ RecsFC(fc_report[2], k) # {} =>
                      ~\E f \in fc_files : f[1] = safe_filename(Strip(fc_input[k][1]))

\* ------------------------------------------------------------------------
\* tools/enrich_firstN.py, with pick_best_url of tools/util.py
\*
\* A function that can raise returns <<"return", v>> or <<"raise", e>>.

\* Most data rows of the input CSV.
MaxRowsFN == 2

\* What util.http_get can do on a search: raise FetchError, or return a
\* result page without or with a link.  (The link of a DuckDuckGo page is
\* the URL itself.)
SearchAnswers == {"FetchError", "empty", "hit"}
DdgAnswers == {<<"FetchError">>, <<"empty">>, ES_JL, ES_BA, ES_CM}

\* What util.http_get can do on a judgment page: raise FetchError, or
\* return a page that plausible_match rejects, accepts, or accepts and
\* that links a PDF.
PageAnswers == {"FetchError", "mismatch", "match", "match-pdf"}

\* jlib_find / bailii_find: search, first judgment page, PDF if present
SiteFind(site, search, page) ==
    IF search = "FetchError" THEN <<"raise", "FetchError">>
    ELSE IF search = "empty" THEN <<"return", None>>
    ELSE IF page = "FetchError" THEN <<"raise", "FetchError">>
    ELSE IF page = "mismatch" THEN <<"return", None>>
    ELSE IF page = "match-pdf" THEN <<"return", <<site, "pdf">>>>
    ELSE <<"return", <<site, "direct">>>>

jlib_find(search, page) == SiteFind("jerseylaw", search, page)

bailii_find(search, page) == SiteFind("bailii", search, page)

\* ddg_first: the first result link, None without one; http_get's
\* FetchError is not caught.
ddg_first(answer) ==
    IF answer = <<"FetchError">> THEN <<"raise", "FetchError">>
    ELSE IF answer = <<"empty">> THEN <<"return", None>>
    ELSE <<"return", answer>>

\* pick_best_url, lines 154-168: one iteration of the loop over the two
\* site filters; <<"continue">> when it falls through to the next.
DdgSiteStep(answer, page) ==
    LET hit == ddg_first(answer)
    IN  IF hit[1] = "raise" THEN hit
        ELSE IF ~Truthy(hit[2]) THEN <<"continue">>
        ELSE IF page \in {"FetchError", "mismatch"} THEN <<"continue">>
        ELSE IF Contains(hit[2], <<"jerseylaw", ".", "je">>)
             THEN <<"return", IF page = "match-pdf" THEN <<"jerseylaw", "pdf">> ELSE hit[2]>>
        ELSE IF Contains(hit[2], <<"bailii", ".", "org">>)
             THEN <<"return", IF page = "match-pdf" THEN <<"bailii", "pdf">> ELSE hit[2]>>
        ELSE <<"return", hit[2]>>

\* pick_best_url for the outcomes of jlib_find, bailii_find and the two
\* loop iterations
pick_best_url(jl, ba, d1, d2) ==
    IF jl[1] = "return" /\ Truthy(jl[2]) THEN jl
    ELSE IF ba[1] = "return" /\ Truthy(ba[2]) THEN ba
    ELSE IF d1[1] # "continue" THEN d1
    ELSE IF d2[1] # "continue" THEN d2
    ELSE <<"return", None>>

JlibOutcomes == {jlib_find(s, p) : s \in SearchAnswers, p \in PageAnswers}
BailiiOutcomes == {bailii_find(s, p) : s \in SearchAnswers, p \in PageAnswers}
DdgOutcomes == {DdgSiteStep(a, p) : a \in DdgAnswers, p \in PageAnswers}

TitleFN == <<"Smith", " ", "v", " ", "Jones">>

\* Rows as csv.DictReader yields them, with and without a url column
RowSetFN ==
    {[Title |-> TitleFN, Citation |-> <<"[2015]", " ", "JRC", " ", "1">>],
     [Title |-> <<" ">>, Citation |-> <<>>],
     [Title |-> TitleFN, Citation |-> <<>>, url |-> ES_CM]}

\* Every row of a file has the columns of its header.
RowSeqsFN ==
    {rows \in UNION {[1..n -> RowSetFN] : n \in 0..MaxRowsFN} :
        \A j, k \in 1..Len(rows) : DOMAIN rows[j] = DOMAIN rows[k]}

ArgSetFN == [start : {0, 1}, limit : {1, 2}]

\* main, line 30: end = min(len(rows), args.start + args.limit)
EndFN == Min(Len(fn_rows), fn_args.start + fn_args.limit)

NotFN == <<euVars, vcVars, esVars, rbVars, ccVars, exVars, f10Vars, cpVars, olVars, fcVars, pfVars>>

FNInit ==
    /\ fn_args \in ArgSetFN
    /\ fn_rows \in RowSeqsFN
    /\ fn_fieldnames = {}
    /\ fn_i = 0
    /\ fn_processed = 0
    /\ fn_pc = "start"
    /\ fn_out = None

\* main, lines 22-31
FN_Begin ==
    /\ fn_pc = "start"
    /\ fn_fieldnames' = (IF fn_rows # <<>> THEN DOMAIN fn_rows[1]
                         ELSE {"Title", "Year", "Citation", "url"}) \cup {"url"}
    /\ fn_i' = fn_args.start
    /\ fn_pc' = "rows"
    /\ UNCHANGED <<fn_args, fn_rows, fn_processed, fn_out>>
    /\ UNCHANGED NotFN

\* main, lines 32-47: one iteration of for i in range(args.start, end)
FN_Row ==
    /\ fn_pc = "rows"
    /\ fn_i < EndFN
    /\ LET r == fn_rows[fn_i + 1]
           title == Strip(Get(r, "Title", <<>>))
       IN  IF ~Truthy(title)
           THEN /\ fn_i' = fn_i + 1
                /\ UNCHANGED <<fn_rows, fn_processed, fn_pc>>
           ELSE \E jl \in JlibOutcomes, ba \in BailiiOutcomes,
                   d1 \in DdgOutcomes, d2 \in DdgOutcomes :
                  LET url == pick_best_url(jl, ba, d1, d2)
                  IN  IF url[1] = "raise"
                      THEN /\ fn_pc' = "crashed"
                           /\ UNCHANGED <<fn_rows, fn_i, fn_processed>>
                      ELSE /\ fn_rows' = IF Truthy(url[2])
                                         THEN [fn_rows EXCEPT ![fn_i + 1] = Put(r, "url", url[2])]
                                         ELSE fn_rows
                           /\ fn_processed' = fn_processed + 1
                           /\ fn_i' = fn_i + 1
                           /\ fn_pc' = "rows"
    /\ UNCHANGED <<fn_args, fn_fieldnames, fn_out>>
    /\ UNCHANGED NotFN

\* main, lines 50-58: write every row, with a url column
FN_Write ==
    /\ fn_pc = "rows"
    /\ fn_i >= EndFN
    /\ fn_out' = <<fn_fieldnames,
                    [k \in 1..Len(fn_rows) |->
                        IF "url" \in DOMAIN fn_rows[k] THEN fn_rows[k]
                        ELSE Put(fn_rows[k], "url", <<>>)]>>
    /\ fn_pc' = "done"
    /\ UNCHANGED <<fn_args, fn_rows, fn_fieldnames, fn_i, fn_processed>>
    /\ UNCHANGED NotFN

InitFN == FNInit /\ EUIdle /\ VCIdle /\ ESIdle /\ RBIdle /\ CCIdle /\ EXIdle /\ F10Idle /\ CPIdle /\ OLIdle /\ FCIdle /\ PFIdle

NextFN == FN_Begin \/ FN_Row \/ FN_Write

SpecFN == InitFN /\ [][NextFN]_vars

\* --- properties of enrich_firstN ---

\* C13: whichever requests fail, enrich_firstN ends with every row of the
\* window gone through and the output CSV written.
C13_NetworkFailureNotFatal ==
    fn_pc \in {"done", "crashed"} =>
        /\ fn_i >= EndFN
        /\ fn_out # None
        /\ Len(fn_out[2]) = Len(fn_rows)

\* --- properties of the requests of enrich_urls ---

\* Two requests were made one after the other with no sleep between them
BackToBackEU == eu_net.last = "request" /\ eu_net.prev = "request"

\* C14 as stated: between any two consecutive requests of a run, within a
\* row or across rows, a politeness sleep takes place.
C14_SleepBetweenAnyTwoRequests == ~BackToBackEU

\* C14: between two consecutive requests made for different rows a
\* politeness sleep takes place; requests made one after the other with
\* no sleep between them belong to the same row.
C14_SleepBetweenRows == BackToBackEU => eu_net.prev_row = eu_net.row

\* A request for a row is made right after the sleep that ended an
\* earlier row.
C14_Witness ==
    /\ eu_net.last = "request"
    /\ eu_net.prev = "sleep"
    /\ eu_net.prev_row < eu_net.row

\* ------------------------------------------------------------------------
\* data/tools/scrape_cases_to_breaches.py, polite_fetch
\*
\* Durations are in tenths of a second.

SLEEP_BETWEEN == 10
MAX_RETRIES == 3

BASE_DOMAINS ==
    {<<"www", ".", "jerseylaw", ".", "je">>, <<"jerseylaw", ".", "je">>,
     <<"www", ".", "bailii", ".", "org">>, <<"bailii", ".", "org">>}

\* s.split(":")[0]
RECURSIVE UpToColon(_)
UpToColon(s) ==
    IF s = <<>> \/ Head(s) = ":" THEN <<>> ELSE <<Head(s)>> \o UpToColon(Tail(s))

same_domain_ok(url) == UpToColon(Lower(Netloc(url))) \in BASE_DOMAINS

\* The same sleep after every failure
RetrySleep_Constant(i) == 15

\* time.sleep(1.5 + i) of the except branch, for loop index i = 0, 1, 2
RetrySleep(i) == 15 + 10 * i

\* The indexes of range(MAX_RETRIES)
RetryRange == 0..(MAX_RETRIES - 1)

UrlsPF ==
    {<<"https", "://", "www", ".", "jerseylaw", ".", "je", "/", "a">>,
     <<"https", "://", "WWW", ".", "BAILII", ".", "org", ":", "443", "/", "b">>,
     <<"https", "://", "bailii", ".", "org", ".", "evil", ".", "example", "/", "c">>}

\* Cache files: none, or the text saved by an earlier call
CachesPF == {None, <<"cached">>}

\* What one attempt can meet: the page, or an exception of urlopen, of
\* resp.read() or of cache_path.write_text
PagesPF == {<<"page">>, <<>>}
ErrorKindsPF == {"URLError", "timeout", "OSError"}

NotPF == <<euVars, vcVars, esVars, rbVars, ccVars, exVars, f10Vars, cpVars, olVars, fcVars, fnVars>>

PFInit ==
    /\ pf_url \in UrlsPF
    /\ pf_cache \in CachesPF
    /\ pf_i = 0
    /\ pf_requests = 0
    /\ pf_sleeps = <<>>
    /\ pf_log = <<>>
    /\ pf_result = None
    /\ pf_pc = "call"

\* polite_fetch, lines 66-71: the domain test and the cache
PF_Call ==
    /\ pf_pc = "call"
    /\ IF ~same_domain_ok(pf_url)
       THEN pf_result' = None /\ pf_pc' = "returned"
       ELSE IF pf_cache # None
       THEN pf_result' = pf_cache /\ pf_pc' = "returned"
       ELSE pf_pc' = "loop" /\ UNCHANGED pf_result
    /\ UNCHANGED <<pf_url, pf_cache, pf_i, pf_requests, pf_sleeps, pf_log>>
    /\ UNCHANGED NotPF

\* polite_fetch, lines 73-83: one iteration of for i in range(MAX_RETRIES)
PF_Attempt ==
    /\ pf_pc = "loop"
    /\ pf_i \in RetryRange
    /\ pf_requests' = pf_requests + 1
    /\ \/ \E html \in PagesPF :
            /\ pf_cache' = html
            /\ pf_sleeps' = Append(pf_sleeps, SLEEP_BETWEEN)
            /\ pf_log' = Append(pf_log, "ok")
            /\ pf_result' = html
            /\ pf_pc' = "returned"
            /\ UNCHANGED pf_i
       \/ \E e \in ErrorKindsPF :
            /\ pf_sleeps' = Append(pf_sleeps, RetrySleep(pf_i))
            /\ pf_log' = Append(pf_log, e)
            /\ pf_i' = pf_i + 1
            /\ UNCHANGED <<pf_cache, pf_result, pf_pc>>
    /\ UNCHANGED pf_url
    /\ UNCHANGED NotPF

\* polite_fetch, line 84: return None after the loop
PF_GiveUp ==
    /\ pf_pc = "loop"
    /\ pf_i \notin RetryRange
    /\ pf_result' = None
    /\ pf_pc' = "returned"
    /\ UNCHANGED <<pf_url, pf_cache, pf_i, pf_requests, pf_sleeps, pf_log>>
    /\ UNCHANGED NotPF

InitPF == PFInit /\ EUIdle /\ VCIdle /\ ESIdle /\ RBIdle /\ CCIdle /\ EXIdle /\ F10Idle /\ CPIdle /\ OLIdle /\ FCIdle /\ FNIdle

NextPF == PF_Call \/ PF_Attempt \/ PF_GiveUp

SpecPF == InitPF /\ [][NextPF]_vars

\* The interpreter keeps running the call: a step that can be taken is
\* taken.
SpecPFFair == SpecPF /\ WF_vars(NextPF)

\* --- properties of polite_fetch ---

\* The call is for an allowed URL with no cache file
AllowedUncachedPF ==
    /\ same_domain_ok(pf_url)
    /\ IF pf_pc = "call" THEN pf_cache = None ELSE pf_pc = "loop" \/ pf_log # <<>>

\* At most MAX_RETRIES requests; a success is the last attempt and ends
\* the call; every attempt is followed by its sleep, SLEEP_BETWEEN after a
\* success and 1.5 + i seconds after the failure of the attempt with loop
\* index i; after MAX_RETRIES failures the call returns None.
AttemptsInOrderPF ==
    /\ pf_requests <= MAX_RETRIES
    /\ Len(pf_log) = pf_requests
    /\ Len(pf_sleeps) = pf_requests
    /\ \A k \in 1..Len(pf_log) :
          IF pf_log[k] = "ok"
          THEN /\ k = Len(pf_log)
               /\ pf_pc = "returned"
               /\ pf_sleeps[k] = SLEEP_BETWEEN
          ELSE pf_sleeps[k] = 15 + 10 * (k - 1)
    /\ (pf_pc = "returned" /\ "ok" \notin Range(pf_log)) =>
          /\ Len(pf_log) = MAX_RETRIES
          /\ pf_result = None

\* C15: polite_fetch, for an allowed and uncached URL, makes at most
\* MAX_RETRIES requests, stops at the first success, sleeps after every
\* attempt, returns None after three failures, and always returns.
C15_BoundedRetries ==
    /\ [](AllowedUncachedPF => AttemptsInOrderPF)
    /\ (AllowedUncachedPF ~> pf_pc = "returned")

\* Three attempts failed and the call returned None.
C15_Witness ==
    /\ AllowedUncachedPF
    /\ pf_pc = "returned"
    /\ Len(pf_log) = MAX_RETRIES
    /\ "ok" \notin Range(pf_log)
    /\ pf_result = None

\* --- properties of the bookkeeping of enrich_first10 ---

\* The title of the k-th row of the window, trimmed
TrimmedTitleF10(k) == Strip(Or(Get(f10_window[k], "Title", <<>>), <<>>))

\* The results row of an entry of urls_index: entries and results rows
\* are made together, in the order of the keys.
ResultOfF10(key) ==
    f10_results[Cardinality({j \in DOMAIN f10_urls_index : j <= key})]

\* C16: every row of the window the loop has been through is recorded
\* under its absolute index in exactly one of urls_index, with its results
\* row, and skipped, and nothing else is recorded; a row with an empty
\* trimmed title is in skipped with reason no-title; ok = |urls_index| =
\* |results| and ko = |skipped|.
C16_Bookkeeping ==
    f10_pc \in {"loop", "write", "done"} =>
        /\ DOMAIN f10_urls_index \cup DOMAIN f10_skipped = {KeyF10(k) : k \in 1..ProcessedF10}
        /\ DOMAIN f10_urls_index \cap DOMAIN f10_skipped = {}
        /\ \A k \in 1..ProcessedF10 :
              /\ KeyF10(k) \in DOMAIN f10_urls_index =>
                    /\ ResultOfF10(KeyF10(k)).title = TrimmedTitleF10(k)
                    /\ ResultOfF10(KeyF10(k)).title = f10_urls_index[KeyF10(k)].title
                    /\ ResultOfF10(KeyF10(k)).citation = f10_urls_index[KeyF10(k)].citation
                    /\ ResultOfF10(KeyF10(k)).url = f10_urls_index[KeyF10(k)].primary_suggested
              /\ TrimmedTitleF10(k) = <<>> =>
                    /\ KeyF10(k) \in DOMAIN f10_skipped
                    /\ f10_skipped[KeyF10(k)].reason = "no-title"
        /\ f10_ok = Cardinality(DOMAIN f10_urls_index)
        /\ f10_ok = Len(f10_results)
        /\ f10_ko = Cardinality(DOMAIN f10_skipped)

\* A window that starts at row 1: its first row has an empty title and
\* is skipped, its second row is in urls_index and results.
C16_Witness ==
    /\ f10_pc = "loop"
    /\ f10_args.start = 1
    /\ ProcessedF10 = 2
    /\ TrimmedTitleF10(1) = <<>>
    /\ f10_skipped[1].reason = "no-title"
    /\ 2 \in DOMAIN f10_urls_index
    /\ f10_ok = 1
    /\ f10_ko = 1

=============================================================================
